---- MODULE Spec2Model ----
(***************************************************************************)
(* A model of the STEP physical file parser of src/parser: parse() in its  *)
(* three modes (full tree, skeleton, header only), the error collector,    *)
(* the entity store built by process_tree and the query facade of file.py. *)
(*                                                                         *)
(* The text of a file is a sequence of lexical items.  The lark recognizer *)
(* and the regular expression that slices the HEADER section are operators *)
(* over that sequence; parse() is a state machine, one action per step.    *)
(***************************************************************************)
EXTENDS Integers, Sequences, FiniteSets, TLC

\* ------------------------------------------------------------------ bounds
\* Largest number of entity records in the DATA sections of DataFiles.
MaxRecs == 2
\* Entity ids are drawn from 1..MaxId.
MaxId == 2

\* Lines a record's tokens may span.
Heights == {1, 2}

\* ------------------------------------------------------------ Python values
\* A str is the sequence of its characters; values carry their class, and two
\* values are the same object's worth exactly when the records are equal.
NoneType == [cls |-> "NoneType"]
None == NoneType
PyStr(cs) == [cls |-> "str", v |-> cs]
PyInt(n) == [cls |-> "int", v |-> n]
\* A float with one decimal, held as its number of tenths.
PyFloat(tenths) == [cls |-> "float", v |-> tenths]
PyTuple(xs) == [cls |-> "tuple", v |-> xs]
\* IfcType has no __eq__: an instance equals itself only (at is where the
\* parameter stood in the source).
IfcType(ifctype, value, at) ==
  [cls |-> "IfcType", ifctype |-> ifctype, value |-> value, at |-> at]

\* a == b in Python: numbers compare by value across int and float.
PyEq(a, b) ==
  IF a.cls = "int" /\ b.cls = "float" THEN 10 * a.v = b.v
  ELSE IF a.cls = "float" /\ b.cls = "int" THEN a.v = 10 * b.v
  ELSE a = b

UPPER == <<"A", "B", "C", "D", "E", "F", "G", "H", "I", "J", "K", "L", "M",
           "N", "O", "P", "Q", "R", "S", "T", "U", "V", "W", "X", "Y", "Z">>
LOWER == <<"a", "b", "c", "d", "e", "f", "g", "h", "i", "j", "k", "l", "m",
           "n", "o", "p", "q", "r", "s", "t", "u", "v", "w", "x", "y", "z">>
DIGIT == <<"0", "1", "2", "3", "4", "5", "6", "7", "8", "9">>

IsIn(c, alphabet) == \E i \in 1..Len(alphabet) : alphabet[i] = c
IndexIn(c, alphabet) == CHOOSE i \in 1..Len(alphabet) : alphabet[i] = c

\* str.lower(), character by character.
lower(cs) ==
  [i \in 1..Len(cs) |-> IF IsIn(cs[i], UPPER) THEN LOWER[IndexIn(cs[i], UPPER)] ELSE cs[i]]

\* int(digits)
RECURSIVE int(_)
int(ds) ==
  IF ds = <<>> THEN 0
  ELSE 10 * int(SubSeq(ds, 1, Len(ds) - 1)) + (IndexIn(ds[Len(ds)], DIGIT) - 1)

\* str(n) for n >= 0
RECURSIVE str(_)
str(n) == IF n < 10 THEN <<DIGIT[n + 1]>> ELSE str(n \div 10) \o <<DIGIT[(n % 10) + 1]>>

\* ------------------------------------------------------- grammar.py tables
\* HEADER_FIELDS with a field of file_name left out.
HEADER_FIELDS_Short ==
  << [name |-> "file_description", fields |-> 2],
     [name |-> "file_name",        fields |-> 6],
     [name |-> "file_schema",      fields |-> 1] >>

\* HEADER_FIELDS, in the order of the dictionary: the rule name and the
\* number of fields of its namedtuple.
HEADER_FIELDS ==
  << [name |-> "file_description", fields |-> 2],
     [name |-> "file_name",        fields |-> 7],
     [name |-> "file_schema",      fields |-> 1] >>

\* str.upper() on the names the header code handles.
Upper(s) ==
  CASE s = "file_description" -> "FILE_DESCRIPTION"
    [] s = "file_name"        -> "FILE_NAME"
    [] s = "file_schema"      -> "FILE_SCHEMA"
    [] OTHER                  -> s

\* ------------------------------------------------- parameters, as written
\* grammar.py's untyped_parameter, omitted_parameter and typed_parameter: what
\* stands in the source between the commas of a parameter_list.
StringLit(body) == [k |-> "string", body |-> body]
Dollar          == [k |-> "NONE"]
Star            == [k |-> "STAR"]
IntLit(ds)      == [k |-> "INT", text |-> ds]
RealLit(ds, fs) == [k |-> "REAL", text |-> ds \o <<".">> \o fs]
EnumLit(kw)     == [k |-> "enumeration", keyword |-> kw]
IdTok(ds)       == [k |-> "id", text |-> <<"#">> \o ds]
ListLit(items)  == [k |-> "list", items |-> items]
TypedLit(kw, p) == [k |-> "typed_parameter", keyword |-> kw, parameter |-> p]

HEX == <<"0", "1", "2", "3", "4", "5", "6", "7", "8", "9", "A", "B", "C", "D", "E", "F">>
REVERSE_SOLIDUS == "\\"
APOSTROPHE == "'"

\* Whether the characters of pat stand in body from position i on.
At(body, i, pat) ==
  /\ i + Len(pat) - 1 <= Len(body)
  /\ \A j \in 1..Len(pat) : body[i + j - 1] = pat[j]

\* Whether n HEX characters stand in body from position i on.
HexAt(body, i, n) ==
  /\ i + n - 1 <= Len(body)
  /\ \A j \in 0..n - 1 : IsIn(body[i + j], HEX)

\* The length of (HEX_TWO)* END_EXTENDED from position i on; 0 without one.
RECURSIVE ExtendedEnd(_, _)
ExtendedEnd(body, i) ==
  IF At(body, i, <<"\\", "X", "0", "\\">>) THEN 4
  ELSE IF HexAt(body, i, 4) /\ ExtendedEnd(body, i + 4) > 0
         THEN 4 + ExtendedEnd(body, i + 4)
         ELSE 0

\* CONTROL_DIRECTIVE: the length of the directive that begins at position i
\* (PAGE, ALPHABET, EXTENDED2, ARBITRARY); 0 when none does.
CONTROL_DIRECTIVE(body, i) ==
  IF At(body, i, <<"\\", "S", "\\">>) /\ i + 3 <= Len(body) THEN 4
  ELSE IF At(body, i, <<"\\", "P">>) /\ i + 3 <= Len(body)
            /\ IsIn(body[i + 2], UPPER) /\ body[i + 3] = "\\" THEN 4
  ELSE IF At(body, i, <<"\\", "X", "2", "\\">>) /\ ExtendedEnd(body, i + 4) > 0
         THEN 4 + ExtendedEnd(body, i + 4)
  ELSE IF At(body, i, <<"\\", "X", "\\">>) /\ HexAt(body, i + 3, 2) THEN 5
  ELSE 0

\* The terminal the lexer finds at position i of a string body, in the order
\* lark tries them (priority, then width), and its length.
StringTerminal(body, i) ==
  IF body[i] = " " THEN [type |-> "SPACE", len |-> 1]
  ELSE IF CONTROL_DIRECTIVE(body, i) > 0
         THEN [type |-> "CONTROL_DIRECTIVE", len |-> CONTROL_DIRECTIVE(body, i)]
  ELSE IF At(body, i, <<"\\", "*", "\\">>) THEN [type |-> "__ANON", len |-> 3]
  ELSE IF At(body, i, <<"'", "'">>) THEN [type |-> "SPECIAL", len |-> 2]
  ELSE IF body[i] = REVERSE_SOLIDUS THEN [type |-> "REVERSE_SOLIDUS", len |-> 1]
  ELSE IF IsIn(body[i], DIGIT) THEN [type |-> "DIGIT", len |-> 1]
  ELSE IF IsIn(body[i], LOWER) THEN [type |-> "LOWER", len |-> 1]
  ELSE IF IsIn(body[i], UPPER) THEN [type |-> "UPPER", len |-> 1]
  ELSE [type |-> "SPECIAL", len |-> 1]

\* string: the tokens of the body, from position i on.  After the first
\* REVERSE_SOLIDUS of a pair only the second one is looked for.
RECURSIVE StringTokens(_, _)
StringTokens(body, i) ==
  IF i > Len(body) THEN <<>>
  ELSE IF At(body, i, <<"\\", "\\">>) /\ CONTROL_DIRECTIVE(body, i) = 0
    THEN << [type |-> "REVERSE_SOLIDUS", value |-> <<"\\">>],
            [type |-> "REVERSE_SOLIDUS", value |-> <<"\\">>] >>
         \o StringTokens(body, i + 2)
    ELSE LET t == StringTerminal(body, i)
         IN  << [type |-> t.type, value |-> SubSeq(body, i, i + t.len - 1)] >>
             \o StringTokens(body, i + t.len)

\* The children lark gives the rule: a literal written in the rule itself is
\* matched and left out of the tree; a named terminal stays.
Children(toks) == SelectSeq(toks, LAMBDA t : t.type # "__ANON")

\* --------------------------------------------------------- the file's text
\* Literal pieces of text.
Lit(s) == [t |-> "lit", s |-> s]
ISO    == Lit("ISO-10303-21;")
ENDISO == Lit("END-ISO-10303-21;")
HEADER == Lit("HEADER")
ENDSEC == Lit("ENDSEC")
DATA   == Lit("DATA")
SEMI   == Lit(";")
SP     == Lit(" ")
NL     == Lit("\n")

\* A header entity "rule(p1,...,pn);" written on one line.  body is "ok",
\* "defect" (text the grammar rejects, such as a doubled comma), "quoted"
\* (well formed, with a string parameter whose characters include ENDSEC;)
\* or "cut" (the text of a "quoted" entity up to that string's ENDSEC;).
HEnt(rule, n, body) ==
  [t |-> "hent", rule |-> rule, body |-> body,
   params |-> [i \in 1..n |-> StringLit(<<"x">>)]]

\* FILE_SCHEMA(('<schema>')[,...]); with n parameters, the first of them the
\* list of the one schema identifier.
HSchema(n, schema) ==
  [t |-> "hent", rule |-> "file_schema", body |-> "ok",
   params |-> [i \in 1..n |-> IF i = 1 THEN ListLit(<<StringLit(schema)>>)
                                       ELSE StringLit(<<"x">>)]]

\* The attribute values a record is written from.  A String is made of units:
\* a plain character, an apostrophe (written ''), a backslash (written \\), a
\* control directive, or the characters \*\ of the string rule.
Null        == [v |-> "Null"]
Omitted     == [v |-> "Omitted"]
Integer(n)  == [v |-> "Integer", n |-> n]
Real(t)     == [v |-> "Real", tenths |-> t]
Enum(kw)    == [v |-> "Enum", keyword |-> kw]
Ref(n)      == [v |-> "Ref", n |-> n]
String(us)  == [v |-> "String", units |-> us]
List(xs)    == [v |-> "List", items |-> xs]
Typed(kw, x) == [v |-> "Typed", keyword |-> kw, value |-> x]

Ch(c)    == [u |-> "character", cs |-> <<c>>]
Apos     == [u |-> "apostrophe", cs |-> <<"'", "'">>]
Bsl      == [u |-> "backslash", cs |-> <<"\\", "\\">>]
Dir(cs)  == [u |-> "directive", cs |-> cs]
Anon     == [u |-> "literal", cs |-> <<"\\", "*", "\\">>]
Chars(cs) == [i \in 1..Len(cs) |-> Ch(cs[i])]
\* Characters of the shape of a comment, written in a string.
CommentShaped == [u |-> "comment", cs |-> <<"/", "*", "a", "*", "/">>]

RECURSIVE Flatten(_)
Flatten(ss) == IF ss = <<>> THEN <<>> ELSE Head(ss) \o Flatten(Tail(ss))

\* The parameter an attribute value is written as.
RECURSIVE Written(_)
Written(a) ==
  CASE a.v = "Null"    -> Dollar
    [] a.v = "Omitted" -> Star
    [] a.v = "Integer" -> IntLit(str(a.n))
    [] a.v = "Real"    -> RealLit(str(a.tenths \div 10), str(a.tenths % 10))
    [] a.v = "Enum"    -> EnumLit(a.keyword)
    [] a.v = "Ref"     -> IdTok(str(a.n))
    [] a.v = "String"  -> StringLit(Flatten([i \in 1..Len(a.units) |-> a.units[i].cs]))
    [] a.v = "List"    -> ListLit([i \in 1..Len(a.items) |-> Written(a.items[i])])
    [] a.v = "Typed"   -> TypedLit(a.keyword, Written(a.value))

IFCPERSON == <<"I", "F", "C", "P", "E", "R", "S", "O", "N">>
IFCWALL   == <<"I", "F", "C", "W", "A", "L", "L">>
Alice     == <<"A", "l", "i", "c", "e">>
IFC4      == <<"I", "F", "C", "4">>

\* An entity record: its id, written with zeros leading zeros; simple or
\* complex; its keyword and attribute values; h, the lines from its id to its
\* last parameter (the line break stands before the last parameter); tail, the
\* line breaks between the last parameter and the closing ");".
Record(id, zeros, kind, type, attributes, h, tail) ==
  [id |-> id, zeros |-> zeros, kind |-> kind, type |-> type,
   attributes |-> attributes, h |-> h, tail |-> tail]

\* The record "#id=IFCPERSON($,'Alice');" (complex:
\* "#id=(IFCPERSON($,'Alice')IFCPERSON($,'Alice'));") on h lines.
Rec(id, kind, h) ==
  Record(id, 0, kind, IFCPERSON, <<Null, String(Chars(Alice))>>, h, 0)

\* The text of record r.
RecText(r) ==
  [t |-> "rec", kind |-> r.kind, h |-> r.h, tail |-> r.tail,
   id |-> IdTok([i \in 1..r.zeros |-> "0"] \o str(r.id)).text,
   keyword |-> r.type,
   parameter_list |-> [i \in 1..Len(r.attributes) |-> Written(r.attributes[i])]]

\* Text in the DATA section that the grammar rejects.
JUNK == [t |-> "junk"]

\* The text of the file described by d (see FileContents below).
Text(d) ==
  <<ISO, NL>>
  \o (IF d.hasHeader
        THEN <<HEADER>> \o (IF d.spHeader THEN <<SP>> ELSE <<>>) \o <<SEMI, NL>>
             \o <<HEnt("file_description", d.n[1], d.hbody), NL,
                  HEnt("file_name", d.n[2], "ok"), NL,
                  HSchema(d.n[3], d.schema), NL>>
             \o <<ENDSEC>> \o (IF d.spEndsec THEN <<SP>> ELSE <<>>) \o <<SEMI, NL>>
        ELSE <<>>)
  \o <<DATA, SEMI, NL>>
  \o Flatten([i \in 1..Len(d.data) |-> <<RecText(d.data[i]), NL>>])
  \o (IF d.junk THEN <<JUNK, NL>> ELSE <<>>)
  \o <<ENDSEC, SEMI, NL, ENDISO, NL>>

\* ------------------------------------------------------- the recognizer
IsSpace(x) == x = SP \/ x = NL

\* Newlines inside item x.
Newlines(x) == IF x = NL THEN 1 ELSE IF x.t = "rec" THEN x.h - 1 + x.tail ELSE 0

\* The 1-based line on which item i of text begins.
RECURSIVE LineOf(_, _)
LineOf(text, i) == IF i = 1 THEN 1 ELSE LineOf(text, i - 1) + Newlines(text[i - 1])

\* %ignore: the items of text that are not whitespace, each with its line.
Tokens(text) ==
  LET idx == SelectSeq([i \in 1..Len(text) |-> i], LAMBDA i : ~IsSpace(text[i]))
  IN  [k \in 1..Len(idx) |-> [tok |-> text[idx[k]], line |-> LineOf(text, idx[k])]]

\* The grammar symbol an item stands for.
Sym(x) ==
  CASE x.t = "lit"  -> x.s
    [] x.t = "hent" -> IF x.body \in {"ok", "quoted"} THEN x.rule ELSE "error"
    [] x.t = "rec"  -> "entity_instance"
    [] OTHER        -> "error"

\* file: "ISO-10303-21;" header data_section "END-ISO-10303-21;" as the
\* sequence of symbols before and after the (entity_instance)* of the data
\* section.
FilePrefix == <<"ISO-10303-21;", "HEADER", ";", "file_description", "file_name",
                "file_schema", "ENDSEC", ";", "DATA", ";">>
FileSuffix == <<"ENDSEC", ";", "END-ISO-10303-21;">>

\* The index of the first token the grammar does not accept, reading toks from
\* token i in parser position p (1..Len(FilePrefix): the prefix; then the
\* entity loop; then the suffix); Len(toks) + 1 when the input ends too early;
\* 0 when toks is a file.
RECURSIVE Reject(_, _, _)
Reject(toks, i, p) ==
  LET np == Len(FilePrefix)
      ns == Len(FileSuffix)
  IN  IF i > Len(toks)
        THEN IF p = np + ns + 1 THEN 0 ELSE i
        ELSE LET s == Sym(toks[i].tok)
             IN  IF p <= np
                   THEN IF s = FilePrefix[p] THEN Reject(toks, i + 1, p + 1) ELSE i
                   ELSE IF p = np + 1 /\ s = "entity_instance"
                          THEN Reject(toks, i + 1, p)
                          ELSE IF p <= np + ns /\ s = FileSuffix[p - np]
                                 THEN Reject(toks, i + 1, p + 1)
                                 ELSE i

\* Whether parameter p leaves a token in the tree (an empty string or list
\* leaves none: the quotes, brackets and commas are not kept).
RECURSIVE HasTokens(_)
HasTokens(p) ==
  CASE p.k = "string" -> Children(StringTokens(p.body, 1)) # <<>>
    [] p.k = "list"   -> \E i \in 1..Len(p.items) : HasTokens(p.items[i])
    [] OTHER          -> TRUE

\* Token.line of the tokens the tree of record x keeps, x beginning on line:
\* the id, the keyword and the tokens of each parameter.  The "=", "(", ",",
\* ")" and ";" of the record are matched and not kept.
TokenLines(x, line) ==
  LET n == Len(x.parameter_list)
  IN  <<line, line>>
      \o Flatten([j \in 1..n |->
                    IF HasTokens(x.parameter_list[j])
                      THEN <<IF j = n THEN line + x.h - 1 ELSE line>>
                      ELSE <<>>])

\* Lark(grammar, parser="lalr", start="file").parse(text): the tree of a text
\* the grammar accepts (the three header entities and the entity records, each
\* record with the lines of its first and last token), or the failure with
\* the records reduced before it.
LarkParse(text) ==
  LET toks == Tokens(text)
      bad  == Reject(toks, 1, 1)
      upto == IF bad = 0 THEN Len(toks) ELSE bad - 1
      recs == SelectSeq(SubSeq(toks, 1, upto), LAMBDA k : k.tok.t = "rec")
      ents == [i \in 1..Len(recs) |->
                 [id |-> recs[i].tok.id, kind |-> recs[i].tok.kind,
                  keyword |-> recs[i].tok.keyword,
                  parameter_list |-> recs[i].tok.parameter_list,
                  lines |-> TokenLines(recs[i].tok, recs[i].line)]]
      hdrs == SelectSeq(SubSeq(toks, 1, upto), LAMBDA k : k.tok.t = "hent")
  IN  IF bad = 0
        THEN [ok |-> TRUE,
              header |-> [i \in 1..Len(hdrs) |->
                            [rule |-> hdrs[i].tok.rule, params |-> hdrs[i].tok.params]],
              data |-> ents]
        ELSE [ok |-> FALSE,
              line |-> IF bad <= Len(toks) THEN toks[bad].line
                       ELSE LineOf(text, Len(text)),
              data |-> ents]


\* ------------------------------------------------ the HEADER slice (regex)
\* Whether the characters ISO-10303-21; occur in item x.
HasISO(x) == x = ISO \/ x = ENDISO

\* Whether the characters ENDSEC; begin at item k of text.
EndsecAt(text, k) ==
  \/ text[k] = ENDSEC /\ k + 1 <= Len(text) /\ text[k + 1] = SEMI
  \/ text[k].t = "hent" /\ text[k].body = "quoted"

\* The first item after item i that is not whitespace (\s*).
RECURSIVE SkipSpace(_, _)
SkipSpace(text, i) ==
  IF i <= Len(text) /\ IsSpace(text[i]) THEN SkipSpace(text, i + 1) ELSE i

\* HeaderSearch with the greedy group (.*): the match runs to the last
\* ENDSEC; of the text.
HeaderSearchGreedy(text) ==
  LET Start(i) == LET j == SkipSpace(text, i + 1)
                  IN  /\ HasISO(text[i])
                      /\ j + 1 <= Len(text)
                      /\ text[j] = HEADER /\ text[j + 1] = SEMI
      From(i) == SkipSpace(text, i + 1) + 2
      Ends(i) == {k \in From(i)..Len(text) : EndsecAt(text, k)}
      starts  == {i \in 1..Len(text) : Start(i) /\ Ends(i) # {}}
  IN  IF starts = {}
        THEN [found |-> FALSE, group |-> <<>>]
        ELSE LET i == CHOOSE x \in starts : \A y \in starts : x <= y
                 k == CHOOSE x \in Ends(i) : \A y \in Ends(i) : x >= y
             IN  [found |-> TRUE,
                  group |-> SubSeq(text, From(i), k - 1)
                            \o (IF text[k].t = "hent"
                                  THEN <<[text[k] EXCEPT !.body = "cut"]>>
                                  ELSE <<>>)]

\* re.search(r"ISO-10303-21;\s*HEADER;(.*?)ENDSEC;", text, DOTALL): the group
\* of the leftmost match, the shortest one from its start.
HeaderSearch(text) ==
  LET Start(i) == LET j == SkipSpace(text, i + 1)
                  IN  /\ HasISO(text[i])
                      /\ j + 1 <= Len(text)
                      /\ text[j] = HEADER /\ text[j + 1] = SEMI
      From(i) == SkipSpace(text, i + 1) + 2
      Ends(i) == {k \in From(i)..Len(text) : EndsecAt(text, k)}
      starts  == {i \in 1..Len(text) : Start(i) /\ Ends(i) # {}}
  IN  IF starts = {}
        THEN [found |-> FALSE, group |-> <<>>]
        ELSE LET i == CHOOSE x \in starts : \A y \in starts : x <= y
                 k == CHOOSE x \in Ends(i) : \A y \in Ends(i) : x <= y
             IN  [found |-> TRUE,
                  group |-> SubSeq(text, From(i), k - 1)
                            \o (IF text[k].t = "hent"
                                  THEN <<[text[k] EXCEPT !.body = "cut"]>>
                                  ELSE <<>>)]

\* f"ISO-10303-21;HEADER;{group}ENDSEC;DATA;ENDSEC;END-ISO-10303-21;"
FullHeaderText(group) ==
  <<ISO, HEADER, SEMI>> \o group \o <<ENDSEC, SEMI, DATA, SEMI, ENDSEC, SEMI, ENDISO>>

\* ---------------------------------------------------------------- errors.py
SyntaxError(line) == [cls |-> "SyntaxError", lineno |-> line]

DuplicateNameError(name, linenumbers) ==
  [cls |-> "DuplicateNameError", name |-> name, linenumbers |-> linenumbers]

HeaderFieldError(field, found_len, expected_len) ==
  [cls |-> "HeaderFieldError", field |-> field,
   found_len |-> found_len, expected_len |-> expected_len]

\* Lineno reading the other end of the line span.
LinenoLast(e) == e.linenumbers[2]

\* DuplicateNameError.asdict()["lineno"]
Lineno(e) == e.linenumbers[1]

\* ErrorCollector.add
Add(errs, e) == Append(errs, e)

\* ErrorCollector.raise_if_any: whether CollectedValidationErrors is raised.
RaiseIfAny(errs) == errs # <<>>

\* ------------------------------------------------------------ dictionaries
\* A Python dict keeps its keys in insertion order.
EmptyDict == [keys |-> <<>>, map |-> <<>>]

Has(d, k) == k \in DOMAIN d.map

\* dict.get(k, default)
Get(d, k, default) == IF Has(d, k) THEN d.map[k] ELSE default

\* defaultdict(list).__getitem__: reading a missing key inserts an empty list.
Touch(d, k) ==
  IF Has(d, k) THEN d ELSE [keys |-> Append(d.keys, k), map |-> d.map @@ (k :> <<>>)]

\* ---------------------------------------------------------- transformer.py
\* "".join(s) over the tokens s.
join(s) == Flatten([i \in 1..Len(s) |-> s[i].value])

\* str.replace("''", "'"): from the left, without overlap.
RECURSIVE replace(_)
replace(cs) ==
  IF cs = <<>> THEN <<>>
  ELSE IF Len(cs) >= 2 /\ cs[1] = "'" /\ cs[2] = "'"
         THEN <<"'">> \o replace(SubSeq(cs, 3, Len(cs)))
         ELSE <<cs[1]>> \o replace(Tail(cs))

\* T.id
T_id(s) == PyInt(int(Tail(s)))

\* T.string
T_string(s) == PyStr(replace(join(s)))

\* T.keyword
T_keyword(s) == PyStr(s)

\* NONE lowered like STAR, to the text of the token.
T_NONE_str == PyStr(<<"$">>)

\* T.NONE
T_NONE == None

\* T.STAR = str
T_STAR(s) == PyStr(s)

\* T.INT = int
T_INT(s) == PyInt(int(s))

\* T.REAL = float, for a text of digits, a point and at most one digit.
T_REAL(s) ==
  LET dot  == CHOOSE i \in 1..Len(s) : s[i] = "."
      frac == SubSeq(s, dot + 1, Len(s))
  IN  PyFloat(10 * int(SubSeq(s, 1, dot - 1)) + (IF frac = <<>> THEN 0 ELSE int(frac)))

\* T(visit_tokens=True).transform of the parameter p that stands at place at:
\* untyped_parameter, omitted_parameter and enumeration hand on their child;
\* list = tuple; typed_parameter makes an IfcType.
RECURSIVE T(_, _)
T(p, at) ==
  CASE p.k = "string"      -> T_string(Children(StringTokens(p.body, 1)))
    [] p.k = "NONE"        -> T_NONE
    [] p.k = "STAR"        -> T_STAR(<<"*">>)
    [] p.k = "INT"         -> T_INT(p.text)
    [] p.k = "REAL"        -> T_REAL(p.text)
    [] p.k = "enumeration" -> T_keyword(p.keyword)
    [] p.k = "id"          -> T_id(p.text)
    [] p.k = "list"        ->
         PyTuple([i \in 1..Len(p.items) |-> T(p.items[i], Append(at, i))])
    [] p.k = "typed_parameter" ->
         IfcType(T_keyword(p.keyword), T(p.parameter, Append(at, 1)), at)

\* parameter_list = tuple
parameter_list(ps, at) == [i \in 1..Len(ps) |-> T(ps[i], Append(at, i))]

\* make_header_ent over the three header entities, gathered with dict(map(...)).
HeaderDict(hents) ==
  [k \in {Upper(hents[i].rule) : i \in 1..Len(hents)} |->
     LET i == CHOOSE j \in 1..Len(hents) :
                /\ Upper(hents[j].rule) = k
                /\ \A l \in j + 1..Len(hents) : Upper(hents[l].rule) # k
     IN  parameter_list(hents[i].params, <<k>>)]

Min(S) == CHOOSE x \in S : \A y \in S : x <= y
Max(S) == CHOOSE x \in S : \A y \in S : x >= y

\* create_step_entity: the instance of a simple record.  (A complex record has
\* no simple_record child to read the type from: the caller sees the
\* AttributeError.)
create_step_entity(t) ==
  LET lines == {t.lines[i] : i \in 1..Len(t.lines)}
  IN  [id |-> T_id(t.id).v, type |-> T_keyword(t.keyword),
       attributes |-> parameter_list(t.parameter_list, <<t.lines[1]>>),
       lines |-> <<Min(lines), Max(lines)>>]

\* ----------------------------------------------------------------- file.py
\* by_id without the test for several definitions: the first one is returned.
by_id_first(data_, id) ==
  LET ns == Get(data_, id, <<>>)
  IN  IF Len(ns) = 0 THEN [status |-> "not found", value |-> NoneType]
      ELSE [status |-> "ok", value |-> ns[1]]

\* file.by_id
by_id(data_, id) ==
  LET ns == Get(data_, id, <<>>)
  IN  IF Len(ns) = 0      THEN [status |-> "not found", value |-> NoneType]
      ELSE IF Len(ns) > 1 THEN [status |-> "duplicate", value |-> NoneType]
      ELSE [status |-> "ok", value |-> ns[1]]

\* by_type comparing the type as it is written, letter case included.
by_type_exact(data_, type) ==
  LET values == Flatten([i \in 1..Len(data_.keys) |-> data_.map[data_.keys[i]]])
  IN  SelectSeq(values, LAMBDA ent : ent.type.v = type)

\* file.by_type: itertools.chain.from_iterable(self.data_.values()), filtered.
by_type(data_, type) ==
  LET type_lc == lower(type)
      values  == Flatten([i \in 1..Len(data_.keys) |-> data_.map[data_.keys[i]]])
  IN  SelectSeq(values, LAMBDA ent : lower(ent.type.v) = type_lc)

\* file.schema_identifier: self.header_["FILE_SCHEMA"][0][0]
schema_identifier(header_) == header_["FILE_SCHEMA"][1].v[1]

\* The number of digits that stand in cs from position i on.
RECURSIVE Digits(_, _)
Digits(cs, i) ==
  IF i <= Len(cs) /\ IsIn(cs[i], DIGIT) THEN 1 + Digits(cs, i + 1) ELSE 0

\* (?P<s>s\d+)? at position i of cs: the text of the group, <<>> when the
\* group does not take part in the match.
Group(cs, i, s) ==
  IF At(cs, i, s) /\ Digits(cs, i + Len(s)) > 0
    THEN SubSeq(cs, i, i + Len(s) + Digits(cs, i + Len(s)) - 1)
    ELSE <<>>

prefixes == << <<"I", "F", "C">>, <<"X">>, <<"_", "A", "D", "D">>, <<"_", "T", "C">> >>

\* re.match(reg, identifier): the four groups, each tried where the one
\* before it ended.
RECURSIVE Match(_, _, _)
Match(cs, i, k) ==
  IF k > Len(prefixes) THEN <<>>
  ELSE LET g == Group(cs, i, prefixes[k])
       IN  <<g>> \o Match(cs, i + Len(g), k + 1)

\* version_tuple: int(pp[1][len(pp[0]):]) if pp[1] else None
version_tuple(groups) ==
  [k \in 1..Len(prefixes) |->
     IF groups[k] # <<>>
       THEN PyInt(int(SubSeq(groups[k], Len(prefixes[k]) + 1, Len(groups[k]))))
       ELSE None]

\* A number is true unless it is 0; None is false.
Truthy(x) == x # None /\ x.v # 0

\* file.schema
schema(header_) ==
  LET t == version_tuple(Match(schema_identifier(header_).v, 1, 1))
  IN  PyStr(Flatten([k \in 1..2 |-> IF Truthy(t[k]) THEN prefixes[k] \o str(t[k].v)
                                                     ELSE <<>>]))

\* file.schema_version: the file object has no attribute wrapped_data, the
\* first thing the property reads.
schema_version(header_) == [status |-> "AttributeError", value |-> NoneType]

\* file.__getitem__
getitem(data_, key) == by_id(data_, key)


\* --------------------------------------- parse.py: the comment preprocessor
\* A replace_fn that takes the comment out of the text.
replace_fn_removed(match) == <<>>

\* replace_fn: re.sub(r"[^\n]", " ", match.group()), the matched comment with
\* every character but the line breaks made a space.
replace_fn(match) == [i \in 1..Len(match) |-> IF match[i] = "\n" THEN "\n" ELSE " "]

\* Where the first "*/" that begins at position j of cs or after it ends; 0
\* without one.  It is where the lazy [\s\S]*? of p lets a match end.
CommentEnd(cs, j) ==
  LET ends == {k \in j..Len(cs) - 1 : cs[k] = "*" /\ cs[k + 1] = "/"}
  IN  IF ends = {} THEN 0 ELSE Min(ends) + 1

\* re.sub(p, replace_fn, filecontent) with p = r"/\*[\s\S]*?\*/", from
\* position i of cs on: the matches are taken from left to right and do not
\* overlap.
RECURSIVE sub(_, _)
sub(cs, i) ==
  IF i > Len(cs) THEN <<>>
  ELSE IF At(cs, i, <<"/", "*">>) /\ CommentEnd(cs, i + 2) # 0
    THEN replace_fn(SubSeq(cs, i, CommentEnd(cs, i + 2))) \o sub(cs, CommentEnd(cs, i + 2) + 1)
    ELSE <<cs[i]>> \o sub(cs, i + 1)

\* The preprocessor on a parameter and on the items of a text.  In the texts
\* of this model the marks of a comment are written inside string bodies only
\* and every "/*" has its "*/" in the same body, so that the matches of p in
\* the text are the matches of p in its string bodies.
RECURSIVE SubParameter(_)
SubParameter(p) ==
  CASE p.k = "string" -> StringLit(sub(p.body, 1))
    [] p.k = "list" -> ListLit([i \in 1..Len(p.items) |-> SubParameter(p.items[i])])
    [] p.k = "typed_parameter" -> TypedLit(p.keyword, SubParameter(p.parameter))
    [] OTHER -> p

WithoutComments(text) ==
  [i \in 1..Len(text) |->
     IF text[i].t = "hent"
       THEN [text[i] EXCEPT !.params = [j \in 1..Len(@) |-> SubParameter(@[j])]]
     ELSE IF text[i].t = "rec"
       THEN [text[i] EXCEPT !.parameter_list = [j \in 1..Len(@) |-> SubParameter(@[j])]]
     ELSE text[i]]

\* ------------------------------------------------------------- mvd_info.py
\* A str is the sequence of its characters (see PyStr); a list carries its
\* items in order.
PyList(xs) == [cls |-> "list", v |-> xs]

\* The keywords written in mvd_grammar, and Remark, a keyword of no rule.
ViewDefinition == <<"V", "i", "e", "w", "D", "e", "f", "i", "n", "i", "t", "i", "o", "n">>
Comment == <<"C", "o", "m", "m", "e", "n", "t">>
ExchangeRequirement == <<"E", "x", "c", "h", "a", "n", "g", "e", "R", "e", "q", "u", "i", "r", "e", "m", "e", "n", "t">>
Option == <<"O", "p", "t", "i", "o", "n">>
Remark == <<"R", "e", "m", "a", "r", "k">>

\* The names DescriptionTransform puts into its keywords.
view_definitions_name == <<"v", "i", "e", "w", "_", "d", "e", "f", "i", "n", "i", "t", "i", "o", "n", "s">>
comments_name == <<"c", "o", "m", "m", "e", "n", "t", "s">>
exchange_requirements_name == <<"e", "x", "c", "h", "a", "n", "g", "e", "_", "r", "e", "q", "u", "i", "r", "e", "m", "e", "n", "t", "s">>
options_name == <<"o", "p", "t", "i", "o", "n", "s">>

\* GENERIC_KEYWORD: /[A-Za-z0-9_]+/
WordCharacters ==
  {UPPER[n] : n \in 1..26} \cup {LOWER[n] : n \in 1..26} \cup {DIGIT[n] : n \in 1..10} \cup {"_"}
GENERIC_KEYWORD(c) == c \in WordCharacters
\* value: /[A-Za-z0-9 _\.-]+/
value_char(c) == c \in WordCharacters \cup {" ", ".", "-"}
\* other_keyword and dynamic_option_word: /[^\[\]]+/
other_keyword_char(c) == c \notin {"[", "]"}
\* common.WS, %ignore'd; the descriptions of this model have no whitespace but
\* the space.
WS(c) == c = " "

\* Where the longest match of each pattern from position i of text on ends:
\* the first position the pattern does not take.
RECURSIVE KeywordEnd(_, _)
KeywordEnd(text, i) ==
  IF i > Len(text) THEN i ELSE IF GENERIC_KEYWORD(text[i]) THEN KeywordEnd(text, i + 1) ELSE i
RECURSIVE ValueEnd(_, _)
ValueEnd(text, i) ==
  IF i > Len(text) THEN i ELSE IF value_char(text[i]) THEN ValueEnd(text, i + 1) ELSE i
RECURSIVE BodyEnd(_, _)
BodyEnd(text, i) ==
  IF i > Len(text) THEN i ELSE IF other_keyword_char(text[i]) THEN BodyEnd(text, i + 1) ELSE i
RECURSIVE SkipWS(_, _)
SkipWS(text, i) ==
  IF i > Len(text) THEN i ELSE IF WS(text[i]) THEN SkipWS(text, i + 1) ELSE i

ParseError == [ok |-> FALSE]

\* simple_value_list: value ("," value)* and the closing "]", read from
\* position i.  Where a value may begin, the lexer tries the pattern of value
\* before WS (of two patterns of one priority and width the longer written
\* one is first), and a space is a character of value: the spaces around a
\* name are part of the token.
RECURSIVE simple_value_list(_, _)
value_list_rest(first, rest) ==
  IF rest.ok THEN [ok |-> TRUE, values |-> <<first>> \o rest.values, next |-> rest.next]
             ELSE ParseError

value_list_from(text, i, e) ==
  IF e = i \/ e > Len(text) THEN ParseError
  ELSE IF text[e] = "]" THEN [ok |-> TRUE, values |-> <<SubSeq(text, i, e - 1)>>, next |-> e + 1]
  ELSE IF text[e] = "," THEN value_list_rest(SubSeq(text, i, e - 1), simple_value_list(text, e + 1))
  ELSE ParseError

simple_value_list(text, i) == value_list_from(text, i, ValueEnd(text, i))

\* entry: a keyword, "[", the body and "]", read from the keyword's first
\* character.  Before an other_keyword the lexer tries WS first, so the
\* spaces after "[" are skipped and those before "]" are part of the token.
entry_values(kw, l) ==
  IF l.ok
    THEN [ok |-> TRUE, next |-> l.next,
          tree |-> [data |-> IF kw = ViewDefinition THEN "view_definition" ELSE "comment",
                    keyword |-> kw, values |-> l.values, word |-> <<>>]]
    ELSE ParseError

entry_word(text, kw, a, e) ==
  IF e = a \/ e > Len(text) THEN ParseError
  ELSE IF text[e] # "]" THEN ParseError
  ELSE [ok |-> TRUE, next |-> e + 1,
        tree |-> [data |-> IF kw = ExchangeRequirement THEN "exchangerequirement"
                           ELSE IF kw = Option THEN "option"
                           ELSE "dynamic_option",
                  keyword |-> kw, values |-> <<>>, word |-> SubSeq(text, a, e - 1)]]

entry_body(text, kw, a) ==
  IF kw \in {ViewDefinition, Comment} THEN entry_values(kw, simple_value_list(text, a))
  ELSE entry_word(text, kw, SkipWS(text, a), BodyEnd(text, SkipWS(text, a)))

entry_bracket(text, i, b, c) ==
  IF b = i \/ c > Len(text) THEN ParseError
  ELSE IF text[c] # "[" THEN ParseError
  ELSE entry_body(text, SubSeq(text, i, b - 1), c + 1)

entry(text, i) == entry_bracket(text, i, KeywordEnd(text, i), SkipWS(text, KeywordEnd(text, i)))

\* start: entry+, read from position i.
RECURSIVE start(_, _)
start_rest(en, rest) ==
  IF rest.ok THEN [ok |-> TRUE, entries |-> <<en.tree>> \o rest.entries] ELSE ParseError

start_entry(text, en) == IF en.ok THEN start_rest(en, start(text, en.next)) ELSE ParseError

start_at(text, a) ==
  IF a > Len(text) THEN [ok |-> TRUE, entries |-> <<>>] ELSE start_entry(text, entry(text, a))

start(text, i) == start_at(text, SkipWS(text, i))

\* parser.parse(text): the entries, or one of UnexpectedCharacters,
\* UnexpectedEOF and UnexpectedToken.
parser_parse(text) ==
  LET r == start(text, 1)
  IN  IF r.ok THEN (IF r.entries = <<>> THEN ParseError ELSE r) ELSE ParseError

\* str.split(sep) and str.strip()
RECURSIVE split(_, _)
split(cs, sep) ==
  LET at == {k \in 1..Len(cs) : cs[k] = sep}
  IN  IF at = {} THEN <<cs>>
      ELSE <<SubSeq(cs, 1, Min(at) - 1)>> \o split(SubSeq(cs, Min(at) + 1, Len(cs)), sep)

strip(cs) ==
  LET inked == {k \in 1..Len(cs) : cs[k] # " "}
  IN  IF inked = {} THEN <<>> ELSE SubSeq(cs, Min(inked), Max(inked))

\* sep.join(parts)
RECURSIVE join_with(_, _)
join_with(sep, parts) ==
  IF parts = <<>> THEN <<>>
  ELSE IF Len(parts) = 1 THEN parts[1]
  ELSE parts[1] \o sep \o join_with(sep, Tail(parts))

\* " ".join(text.split()): the words of text with one space between them.
normalised(cs) == join_with(<<" ">>, SelectSeq(split(cs, " "), LAMBDA w : w # <<>>))

\* dict.__setitem__
SetItem(d, k, v) ==
  IF Has(d, k) THEN [d EXCEPT !.map[k] = v]
  ELSE [d EXCEPT !.keys = Append(@, k), !.map = @ @@ (k :> v)]

\* re.search(r'\w+\s*:\s*[^:]+', text): a colon with a word before it, spaces
\* between them or none, and a character that is no colon after it.
HasKeyValue(text) ==
  \E j \in 1..Len(text) - 1 :
    /\ text[j] = ":" /\ text[j + 1] # ":"
    /\ \E w \in 1..j - 1 : GENERIC_KEYWORD(text[w]) /\ \A s \in w + 1..j - 1 : text[s] = " "

\* parse_semicolon_separated_kv
RECURSIVE kv_pairs(_, _)
kv_pairs(pairs, result) ==
  IF pairs = <<>> THEN result
  ELSE LET pair   == Head(pairs)
           colon  == Min({k \in 1..Len(pair) : pair[k] = ":"})
           key    == strip(SubSeq(pair, 1, colon - 1))
           parts  == split(SubSeq(pair, colon + 1, Len(pair)), ",")
           values == [n \in 1..Len(parts) |-> PyStr(strip(parts[n]))]
       IN  IF \E k \in 1..Len(pair) : pair[k] = ":"
             THEN kv_pairs(Tail(pairs),
                           SetItem(result, key, IF Len(values) = 1 THEN values[1] ELSE PyList(values)))
             ELSE kv_pairs(Tail(pairs), result)

parse_semicolon_separated_kv(text) ==
  IF ~HasKeyValue(text) THEN None
  ELSE [cls |-> "dict"] @@ kv_pairs(split(text, ";"), EmptyDict)

\* DescriptionTransform.__init__ (dynamic is the _dynamic of the code: each
\* lowered keyword with its parsed value and its original spelling)
DescriptionTransform ==
  [cls |-> "DescriptionTransform", view_definitions |-> PyList(<<>>), keywords |-> {},
   comments |-> PyStr(<<>>), exchange_requirements |-> PyStr(<<>>),
   options |-> PyStr(<<>>), dynamic |-> EmptyDict]

PyStrs(css) == [n \in 1..Len(css) |-> PyStr(css[n])]

\* DescriptionTransform.store_text_attribute, for its two keywords
store_text_attribute(self, word, keyword) ==
  IF keyword = "exchange_requirements"
    THEN [self EXCEPT !.keywords = @ \cup {exchange_requirements_name},
                      !.exchange_requirements = PyStr(normalised(word))]
    ELSE [self EXCEPT !.keywords = @ \cup {options_name},
                      !.options = PyStr(normalised(word))]

\* The callback of the rule of entry t, on the transformer self.
Callback(self, t) ==
  CASE t.data = "view_definition" ->
         [self EXCEPT !.keywords = @ \cup {view_definitions_name},
                      !.view_definitions = PyList(@.v \o PyStrs(t.values))]
    [] t.data = "comment" ->
         [self EXCEPT !.keywords = @ \cup {comments_name},
                      !.comments = IF Len(t.values) > 1 THEN PyList(PyStrs(t.values))
                                                       ELSE PyStr(t.values[1])]
    [] t.data = "exchangerequirement" ->
         store_text_attribute(self, t.word, "exchange_requirements")
    [] t.data = "option" ->
         LET v == parse_semicolon_separated_kv(normalised(t.word))
         IN  IF v # None THEN [self EXCEPT !.options = v]
                         ELSE store_text_attribute(self, t.word, "options")
    [] t.data = "dynamic_option" ->
         LET key == lower(t.keyword)
         IN  [self EXCEPT !.dynamic = SetItem(@, key,
                                        [value |-> parse_semicolon_separated_kv(t.word),
                                         original_keyword |-> t.keyword]),
                          !.keywords = @ \cup {key}]

\* Transformer.transform: the callbacks of the entries, from left to right.
RECURSIVE transform(_, _)
transform(self, entries) ==
  IF entries = <<>> THEN self
  ELSE transform(Callback(self, Head(entries)), Tail(entries))

\* parse_mvd
parse_mvd(description) ==
  LET text == join_with(<<" ">>, description)
      parsed_description == DescriptionTransform
      parse_tree == parser_parse(text)
  IN  IF text = <<>> THEN [parsed_description EXCEPT !.view_definitions = None]
      ELSE IF parse_tree.ok THEN transform(parsed_description, parse_tree.entries)
      ELSE [parsed_description EXCEPT !.view_definitions = None]

\* file.header: each header entity as the namedtuple of its fields; a
\* namedtuple has no settable field.
file_header(header_) ==
  [kind |-> "namedtuple",
   description |-> [n \in 1..Len(header_["FILE_DESCRIPTION"][1].v) |->
                      header_["FILE_DESCRIPTION"][1].v[n].v]]

\* A header object whose file_description.description can be assigned, as
\* MvdInfo.__init__ takes any header.
Namespace(description) == [kind |-> "namespace", description |-> description]

\* MvdInfo.__init__
MvdInfo(header) == [cls |-> "MvdInfo", header |-> header, parsed |-> None]

\* MvdInfo._ensure_parsed: the _parsed it leaves
ensure_parsed(self) ==
  IF self.parsed = None
    THEN (IF self.header.description = <<>> THEN DescriptionTransform
                                            ELSE parse_mvd(self.header.description))
    ELSE self.parsed

\* A setter that assigns the description and keeps what was parsed.
set_description_keeps_parsed(self, new_description) ==
  IF self.header.kind = "namedtuple"
    THEN [status |-> "AttributeError", self |-> self]
    ELSE [status |-> "ok", self |-> [self EXCEPT !.header.description = new_description]]

\* MvdInfo.description.setter: self._header.file_description.description =
\* tuple(new_description), then self._parsed = None.
set_description(self, new_description) ==
  IF self.header.kind = "namedtuple"
    THEN [status |-> "AttributeError", self |-> self]
    ELSE [status |-> "ok",
          self |-> [self EXCEPT !.header.description = new_description, !.parsed = None]]

\* str.startswith
startswith(cs, prefix) == At(cs, 1, prefix)

\* f"{keyword} [{new_value}]"
KeywordLine(keyword, new_value) == keyword \o <<" ", "[">> \o new_value \o <<"]">>

\* The lines _update_keyword builds.
UpdatedLines(description, keyword, new_value) ==
  LET hit(line) == startswith(strip(line), keyword \o <<" ", "[">>)
      lines == [n \in 1..Len(description) |->
                  IF hit(description[n]) THEN KeywordLine(keyword, new_value)
                                         ELSE description[n]]
      updated == \E n \in 1..Len(description) : hit(description[n])
  IN  IF updated THEN lines ELSE Append(lines, KeywordLine(keyword, new_value))

\* MvdInfo._update_keyword
update_keyword(self, keyword, new_value) ==
  set_description(self, UpdatedLines(self.header.description, keyword, new_value))

\* AutoCommitList.__init__: a list with the keyword its callback writes to
\* and, through it, its formatter.
AutoCommitList(iterable, keyword) == [cls |-> "AutoCommitList", keyword |-> keyword, v |-> iterable]

\* A formatter that joins the comments as the view definitions are joined.
formatter_comma(keyword, lst) == join_with(<<",">>, [n \in 1..Len(lst) |-> lst[n].v])

\* The formatters of MvdInfo.view_definitions and MvdInfo.comments.
formatter(keyword, lst) ==
  join_with(IF keyword = ViewDefinition THEN <<",">> ELSE <<",", " ">>,
            [n \in 1..Len(lst) |-> lst[n].v])

\* AutoCommitList._commit: the texts the callback is called with.
commit(keyword, lst) == <<formatter(keyword, lst)>>

\* A method of list on the items xs: the items it leaves, or the error it
\* raises.  Indices are Python's, from 0; -1 is the last item.
RemoveAt(xs, n) == SubSeq(xs, 1, n - 1) \o SubSeq(xs, n + 1, Len(xs))

list_method(xs, op) ==
  LET n == IF op.index < 0 THEN Len(xs) + 1 + op.index ELSE op.index + 1
      inside == 1 <= n /\ n <= Len(xs)
      ok(ys) == [status |-> "ok", v |-> ys]
  IN  CASE op.name = "append" -> ok(Append(xs, op.items[1]))
        [] op.name = "extend" -> ok(xs \o op.items)
        [] op.name = "insert" ->
             LET at == IF n > Len(xs) THEN Len(xs) + 1 ELSE IF n < 1 THEN 1 ELSE n
             IN  ok(SubSeq(xs, 1, at - 1) \o <<op.items[1]>> \o SubSeq(xs, at, Len(xs)))
        [] op.name = "remove" ->
             IF \E k \in 1..Len(xs) : xs[k] = op.items[1]
               THEN ok(RemoveAt(xs, Min({k \in 1..Len(xs) : xs[k] = op.items[1]})))
               ELSE [status |-> "ValueError", v |-> xs]
        [] op.name = "pop" ->
             IF inside THEN ok(RemoveAt(xs, n)) ELSE [status |-> "IndexError", v |-> xs]
        [] op.name = "clear" -> ok(<<>>)
        [] op.name = "__setitem__" ->
             IF inside THEN ok([xs EXCEPT ![n] = op.items[1]])
                       ELSE [status |-> "IndexError", v |-> xs]
        [] op.name = "__delitem__" ->
             IF inside THEN ok(RemoveAt(xs, n)) ELSE [status |-> "IndexError", v |-> xs]

\* A method of AutoCommitList on the container c: super()'s method, then
\* self._commit().
AutoCommitList_method(c, op) ==
  LET r == list_method(c.v, op)
  IN  IF r.status = "ok"
        THEN [status |-> "ok", c |-> [c EXCEPT !.v = r.v], commits |-> commit(c.keyword, r.v)]
        ELSE [status |-> r.status, c |-> c, commits |-> <<>>]

\* The list MvdInfo.view_definitions and MvdInfo.comments wrap: the parsed
\* value if it is a list, the one value in a list, or the empty list.
AsList(x) == IF x.cls = "list" THEN x.v ELSE IF x.v # <<>> THEN <<x>> ELSE <<>>

\* str(new_value), or ", ".join(new_value) of a list: the setters of
\* view_definitions and comments.
SetterValue(new_value) ==
  IF new_value.cls = "list"
    THEN join_with(<<",", " ">>, [n \in 1..Len(new_value.v) |-> new_value.v[n].v])
    ELSE new_value.v

\* DictionaryHandler._commit: "; ".join(f"{k}: {v}") over the items
DictionaryHandler_commit(d) ==
  join_with(<<";", " ">>,
            [n \in 1..Len(d.keys) |->
               d.keys[n] \o <<":", " ">>
                 \o (IF d.map[d.keys[n]].cls = "str"
                       THEN d.map[d.keys[n]].v
                       ELSE join_with(<<",", " ">>,
                                      [j \in 1..Len(d.map[d.keys[n]].v) |->
                                         d.map[d.keys[n]].v[j].v]))])

\* ------------------------------------------------------------------- state
VARIABLES
  filecontent,           \* the file given to parse(), as its description
  mode,                  \* "tree": with_tree=True; "skeleton": with_tree=False;
                         \* "header": only_header=True; "direct": no parse
  calls,                 \* the modes of the calls still to be made on the file
  prev,                  \* how the previous call on the file ended
  pc,                    \* the position of the running call
  ast,                   \* the tree parser.parse returned
  header,                \* the header dictionary
  ents,                  \* the entity store process_tree is building
  idx,                   \* the index of the entity loops
  hf,                    \* the index of validate_header_fields' loop
  instance_identifiers,  \* the (id, line) pairs of the skeleton transformer
  seen,                  \* the ids the skeleton pass has met
  errors,                \* error_collector.errors
  outcome,               \* "running", "returned", "raised" or "crashed"
  result,                \* what parse() returned
  f,                     \* the file object: header_ and data_
  q,                     \* the last query on f and its answer
  raw,                   \* the characters of a text given to the comment preprocessor
  filecontent_wo_comments, \* what the preprocessor made of raw
  mvd                    \* the MvdInfo object, its header and its containers

vars == <<filecontent, mode, calls, prev, pc, ast, header, ents, idx, hf,
          instance_identifiers, seen, errors, outcome, result, f, q,
          raw, filecontent_wo_comments, mvd>>

Modes == {"tree", "skeleton", "header"}

\* --------------------------------------------------------------- the inputs
\* Parameter counts of the three header entities: the arity and one off it.
Arities == {<<a, b, c>> : a \in {1, 2}, b \in {6, 7}, c \in {1, 2}}

\* Records: a simple record on one or two lines, or a complex record.
Records ==
  {Rec(id, "simple", h) : id \in 1..MaxId, h \in Heights}
    \cup {Rec(id, "complex", 1) : id \in 1..MaxId}

RECURSIVE SeqsUpTo(_, _)
SeqsUpTo(S, n) ==
  IF n = 0 THEN {<<>>}
  ELSE LET shorter == SeqsUpTo(S, n - 1)
       IN  shorter \cup {Append(s, x) : s \in {t \in shorter : Len(t) = n - 1}, x \in S}

\* Files with a regular header section and any DATA section.
DataFiles ==
  [hasHeader : {TRUE}, spHeader : {FALSE}, spEndsec : {FALSE}, hbody : {"ok"},
   n : Arities, schema : {IFC4}, data : SeqsUpTo(Records, MaxRecs), junk : BOOLEAN]

\* Files with any header section and a DATA section with or without defects.
HeaderFiles ==
  {d \in [hasHeader : BOOLEAN, spHeader : BOOLEAN, spEndsec : BOOLEAN,
          hbody : {"ok", "defect", "quoted"}, n : Arities, schema : {IFC4},
          data : {<<>>, <<Rec(1, "simple", 1), Rec(1, "simple", 2), Rec(1, "simple", 1)>>},
          junk : BOOLEAN] :
     ~d.hasHeader => ~d.spHeader /\ ~d.spEndsec /\ d.hbody = "ok" /\ d.n = <<2, 7, 1>>}

\* Stores a caller may hand to file(): each id absent or bound to a list of
\* zero, one or two instances.
Instance(id, line) ==
  [id |-> id, type |-> PyStr(IFCPERSON), attributes |-> <<None, PyStr(Alice)>>,
   lines |-> <<line, line>>]

Stores ==
  LET lists(id) == {<<>>, <<Instance(id, 1)>>, <<Instance(id, 1), Instance(id, 2)>>}
      ids       == [i \in 1..MaxId |-> i]
  IN  UNION {
        {[keys |-> ks, map |-> m] :
           m \in {g \in [{ks[i] : i \in 1..Len(ks)} -> UNION {lists(id) : id \in 1..MaxId}] :
                    \A id \in DOMAIN g : g[id] \in lists(id)}} :
        ks \in {SelectSeq(ids, LAMBDA i : i \in S) : S \in SUBSET (1..MaxId)}}

NoCall == [mode |-> "none"]
NoQuery == [op |-> "none"]

Idle ==
  /\ prev = NoCall
  /\ ast = NoneType /\ header = NoneType
  /\ ents = EmptyDict /\ idx = 0 /\ hf = 0
  /\ instance_identifiers = <<>> /\ seen = {}
  /\ errors = <<>> /\ result = NoneType /\ q = NoQuery

\* No text is at the preprocessor alone, and no MvdInfo has been made.
NoText == raw = <<>> /\ filecontent_wo_comments = NoneType
NoMvd == mvd = NoneType

\* parse(filecontent=...) is entered, or file(ParseResult(...)) is built from
\* a store.
Init ==
  /\ Idle /\ NoText /\ NoMvd
  /\ \/ /\ filecontent \in DataFiles
        /\ mode \in Modes /\ calls = <<>>
        /\ pc = "start" /\ outcome = "running" /\ f = NoneType
     \/ /\ filecontent \in HeaderFiles
        /\ \/ mode \in Modes /\ calls = <<>>
           \/ mode = "tree" /\ calls = <<"header">>
        /\ pc = "start" /\ outcome = "running" /\ f = NoneType
     \/ /\ filecontent = CHOOSE d \in DataFiles : d.data = <<>> /\ ~d.junk /\ d.n = <<2, 7, 1>>
        /\ mode = "direct" /\ calls = <<>>
        /\ pc = "file" /\ outcome = "returned"
        /\ \E s \in Stores :
             f = [header_ |-> HeaderDict(LarkParse(Text(filecontent)).header), data_ |-> s]


\* ------------------------------------------- the inputs of the lowering
\* Largest number of units in the strings of StringFiles.
MaxUnits == 2

KW == <<"K", "W">>

\* A file with a correct, plainly written header, the schema identifier
\* ident and the records data.
File(ident, data) ==
  [hasHeader |-> TRUE, spHeader |-> FALSE, spEndsec |-> FALSE, hbody |-> "ok",
   n |-> <<2, 7, 1>>, schema |-> ident, data |-> data, junk |-> FALSE]

\* Records "#id=IFCPERSON($,'Alice');" with any id from 0 on, written with or
\* without a leading zero.
IdRecords ==
  {Record(id, zeros, "simple", IFCPERSON, <<Null, String(Chars(Alice))>>, 1, 0) :
     id \in 0..MaxId, zeros \in {0, 1}}

\* Records of two entity types.
TypeRecords ==
  {Record(id, 0, "simple", type, <<Null, String(Chars(Alice))>>, 1, 0) :
     id \in 1..MaxId, type \in {IFCPERSON, IFCWALL}}

\* The units of a string body.
Units ==
  {Ch("a"), Ch(" "), Apos, Bsl, Anon, Dir(<<"\\", "X", "\\", "E", "9">>),
   Dir(<<"\\", "S", "\\", "a">>), CommentShaped}

\* Attribute lists: the record of test_parse_features, one of every kind of
\* parameter, and lists that end in a parameter without a token.
AttributeLists ==
  { <<Null, Null, String(Chars(Alice))>>,
    <<Ref(5), Integer(5), Enum(KW), String(Chars(KW)), Omitted, String(<<Ch("*")>>)>>,
    <<Real(50), Integer(5), Null, String(<<Ch("$")>>), String(<<>>)>>,
    <<List(<<Integer(1), Ref(1)>>), Typed(KW, Integer(1)), List(<<>>)>>,
    <<String(<<Ch("N"), Ch(" "), Apos, Ch(" "), Ch("q")>>)>> }

\* Records that differ in their attributes and in where their lines break.
AttributeRecords ==
  {Record(1, 0, "simple", IFCPERSON, as, h, tail) :
     as \in AttributeLists, h \in Heights, tail \in {0, 1}}

\* Records with one string attribute.
StringRecords ==
  {Record(1, 0, "simple", IFCPERSON, <<String(us)>>, 1, 0) : us \in SeqsUpTo(Units, MaxUnits)}

\* Schema identifiers: each of the four groups absent or written with a
\* number, after nothing or after a character no group begins with.
Numbers == {<<"0">>, <<"4">>, <<"0", "3">>}

SchemaIdentifiers ==
  LET part(k) == {<<>>} \cup {prefixes[k] \o ds : ds \in Numbers}
  IN  {lead \o a \o b \o c \o d :
         lead \in {<<>>, <<"Z">>}, a \in part(1), b \in part(2), c \in part(3), d \in part(4)}

\* The record of one id as a simple and as a complex record.
KindRecords == {Rec(1, kind, 1) : kind \in {"simple", "complex"}}

LowerFiles ==
  {File(IFC4, data) : data \in SeqsUpTo(IdRecords, MaxRecs)}
    \cup {File(IFC4, data) : data \in SeqsUpTo(KindRecords, MaxRecs)}
    \cup {File(IFC4, data) : data \in SeqsUpTo(TypeRecords, MaxRecs)}
    \cup {File(IFC4, <<r>>) : r \in AttributeRecords \cup StringRecords}
    \cup {File(s, <<>>) : s \in SchemaIdentifiers}

\* parse(filecontent=...) is entered on a file of LowerFiles.
InitLower ==
  /\ Idle /\ NoText /\ NoMvd
  /\ filecontent \in LowerFiles
  /\ \/ mode \in Modes /\ calls = <<>>
     \/ mode = "skeleton" /\ calls = <<"tree">> /\ filecontent.schema = IFC4
  /\ pc = "start" /\ outcome = "running" /\ f = NoneType

\* ------------------------------------------------------- MvdInfo: the inputs
\* Largest number of mutating calls made on one MvdInfo.
MaxMutations == 2

\* Description lines: each keyword alone, two blocks in one line, a line with
\* a space before its keyword, one that the grammar rejects, and the line of
\* test_file_mvd_attr.
LineA == <<"V", "i", "e", "w", "D", "e", "f", "i", "n", "i", "t", "i", "o", "n", " ", "[", "A", "]">>
LineAB == <<"V", "i", "e", "w", "D", "e", "f", "i", "n", "i", "t", "i", "o", "n", " ", "[", "A", ",", " ", "B", "]">>
LineB == <<"V", "i", "e", "w", "D", "e", "f", "i", "n", "i", "t", "i", "o", "n", " ", "[", "B", "]">>
LineComment == <<"C", "o", "m", "m", "e", "n", "t", " ", "[", "c", "]">>
LineComments == <<"C", "o", "m", "m", "e", "n", "t", " ", "[", "c", ",", " ", "d", "]">>
LineRemark == <<"R", "e", "m", "a", "r", "k", " ", "[", "k", ":", " ", "v", "]">>
LineShared == <<"V", "i", "e", "w", "D", "e", "f", "i", "n", "i", "t", "i", "o", "n", " ", "[", "A", "]", " ", "C", "o", "m", "m", "e", "n", "t", " ", "[", "c", "]">>
LineIndented == <<" ", "V", "i", "e", "w", "D", "e", "f", "i", "n", "i", "t", "i", "o", "n", " ", "[", "A", "]">>
LineText == <<"E", "x", "c", "h", "a", "n", "g", "e", "R", "e", "q", "u", "i", "r", "e", "m", "e", "n", "t", " ", "[", "e", "]", " ", "O", "p", "t", "i", "o", "n", " ", "[", "o", "]">>
LineBroken == <<"V", "i", "e", "w", "D", "e", "f", "i", "n", "i", "t", "i", "o", "n", " ", "[", "A">>
LineS6 == <<"V", "i", "e", "w", "D", "e", "f", "i", "n", "i", "t", "i", "o", "n", " ", "[", "R", "e", "f", "e", "r", "e", "n", "c", "e", "V", "i", "e", "w", "_", "V", "1", ".", "2", ",", " ", "A", "l", "i", "g", "n", "m", "e", "n", "t", "]", " ", "R", "e", "m", "a", "r", "k", " ", "[", "S", "o", "m", "e", "K", "e", "y", ":", " ", "S", "o", "m", "e", "V", "a", "l", "u", "e", "]">>

Descriptions ==
  {<<>>, <<LineA>>, <<LineAB>>, <<LineComments>>, <<LineRemark>>, <<LineShared>>,
   <<LineIndented>>, <<LineText>>, <<LineBroken>>, <<LineS6>>,
   <<LineA, LineComment>>, <<LineA, LineB>>}

\* FILE_DESCRIPTION((<lines>),'x');
HDescription(lines) ==
  [t |-> "hent", rule |-> "file_description", body |-> "ok",
   params |-> <<ListLit([n \in 1..Len(lines) |-> StringLit(lines[n])]), StringLit(<<"x">>)>>]

\* The text of a file with the description lines and an empty DATA section.
DescribedText(lines) ==
  <<ISO, NL, HEADER, SEMI, NL,
    HDescription(lines), NL, HEnt("file_name", 7, "ok"), NL, HSchema(1, IFC4), NL,
    ENDSEC, SEMI, NL, DATA, SEMI, NL, ENDSEC, SEMI, NL, ENDISO, NL>>

NoMvdCall == [status |-> "ok", commits |-> <<>>, c |-> None]

\* An MvdInfo, the container a caller holds of it (None: none), the last
\* mutating call on it or on a container (how it ended, what _update_keyword
\* was called with in it, and the container after a method of one), and the
\* number of mutating calls made.
World(self) == [self |-> self, held |-> None, call |-> NoMvdCall, mutations |-> 0]

\* The descriptions of the files: the test's line is left to the MvdInfo a
\* caller makes.
FileDescriptions == Descriptions \ {<<LineS6>>}

\* open() has returned the file of a described text, or a caller has made an
\* MvdInfo of a header of their own.
InitMvd ==
  /\ Idle /\ NoText
  /\ filecontent = NoneType /\ calls = <<>>
  /\ \/ /\ mode = "header" /\ pc = "file" /\ outcome = "returned"
        /\ \E d \in FileDescriptions :
             f = [header_ |-> HeaderDict(LarkParse(WithoutComments(DescribedText(d))).header),
                  data_ |-> EmptyDict]
        /\ mvd = NoneType
     \/ /\ mode = "none" /\ pc = "none" /\ outcome = "none"
        /\ f = NoneType
        /\ \E d \in Descriptions : mvd = World(MvdInfo(Namespace(d)))

\* The values the setters are given, and the arguments of the list methods.
strX == PyStr(<<"X">>)
strY == PyStr(<<"Y">>)
strA == PyStr(<<"A">>)

NewValues == {strX, PyList(<<strX, strY>>)}

ListCalls ==
  { [name |-> "append", index |-> 0, items |-> <<strX>>],
    [name |-> "extend", index |-> 0, items |-> <<strX, strY>>],
    [name |-> "insert", index |-> 0, items |-> <<strX>>],
    [name |-> "remove", index |-> 0, items |-> <<strA>>],
    [name |-> "pop", index |-> -1, items |-> <<>>],
    [name |-> "clear", index |-> 0, items |-> <<>>],
    [name |-> "__setitem__", index |-> 0, items |-> <<strX>>],
    [name |-> "__delitem__", index |-> 1, items |-> <<>>] }

\* ------------------------------------------------------ MvdInfo: the calls
OnlyMvd ==
  UNCHANGED <<filecontent, mode, calls, prev, pc, ast, header, ents, idx, hf,
              instance_identifiers, seen, errors, outcome, result, f, q,
              raw, filecontent_wo_comments>>

\* f.mvd: MvdInfo(self.header)
Mvd ==
  /\ pc = "file" /\ f # NoneType /\ mvd = NoneType
  /\ mvd' = World(MvdInfo(file_header(f.header_)))
  /\ OnlyMvd

\* self after self._ensure_parsed()
Parsed(self) == [self EXCEPT !.parsed = ensure_parsed(self)]

\* MvdInfo.view_definitions and MvdInfo.comments, on a self that is parsed:
\* the container, or None.
view_definitions(self) ==
  IF self.parsed.view_definitions = None THEN None
  ELSE AutoCommitList(AsList(self.parsed.view_definitions), ViewDefinition)

comments(self) == AutoCommitList(AsList(self.parsed.comments), Comment)

Container(self, keyword) ==
  IF keyword = ViewDefinition THEN view_definitions(self) ELSE comments(self)

\* MvdInfo.__getattr__, on a self that is parsed: the DictionaryHandler of
\* the parsed keyword (a dict: no value of the descriptions is a list), or
\* the AttributeError of a missing name or of a value that is None.
getattr(self, name) ==
  IF Has(self.parsed.dynamic, lower(name))
    THEN (IF self.parsed.dynamic.map[lower(name)].value = None
            THEN [status |-> "AttributeError", value |-> None]
            ELSE [status |-> "ok", value |-> self.parsed.dynamic.map[lower(name)].value])
    ELSE [status |-> "AttributeError", value |-> None]

\* c = mvd.view_definitions or c = mvd.comments, kept by the caller: the
\* one container they keep, taken before their first mutating call.
Hold(keyword) ==
  /\ mvd # NoneType /\ mvd.held = None /\ mvd.mutations = 0
  /\ LET self == Parsed(mvd.self)
     IN  mvd' = [mvd EXCEPT !.self = self, !.held = Container(self, keyword)]
  /\ OnlyMvd

\* A read of mvd.exchange_requirements, mvd.options, mvd.keywords or of a
\* name that is no property (__getattr__): what it leaves is what
\* _ensure_parsed leaves.
Read ==
  /\ mvd # NoneType
  /\ mvd' = [mvd EXCEPT !.self = Parsed(mvd.self)]
  /\ OnlyMvd

\* What a call that ends in _update_keyword(keyword, new_value) leaves.
Updated(w, self, keyword, new_value) ==
  LET u == update_keyword(self, keyword, new_value)
  IN  [w EXCEPT !.self = u.self,
                !.call = [status |-> u.status,
                          commits |-> <<[keyword |-> keyword, new_value |-> new_value]>>,
                          c |-> None],
                !.mutations = @ + 1]

\* mvd._update_keyword(keyword, new_value)
UpdateKeyword(keyword, new_value) ==
  /\ mvd # NoneType /\ mvd.mutations < MaxMutations
  /\ mvd' = Updated(mvd, mvd.self, keyword, new_value)
  /\ OnlyMvd

PropertyKeyword(name) ==
  CASE name = "view_definitions" -> ViewDefinition
    [] name = "comments" -> Comment
    [] name = "exchange_requirements" -> ExchangeRequirement
    [] name = "options" -> Option

\* mvd.<name> = new_value, for the four properties with a setter; a list is
\* given to view_definitions only.
SetProperty(name, new_value) ==
  /\ mvd # NoneType /\ mvd.mutations < MaxMutations
  /\ name = "view_definitions" \/ new_value.cls = "str"
  /\ mvd' = Updated(mvd, mvd.self, PropertyKeyword(name),
                    IF name \in {"view_definitions", "comments"} THEN SetterValue(new_value)
                                                                 ELSE new_value.v)
  /\ OnlyMvd

\* mvd.description = new_description
SetDescription(new_description) ==
  /\ mvd # NoneType /\ mvd.mutations < MaxMutations
  /\ LET r == set_description(mvd.self, new_description)
     IN  mvd' = [mvd EXCEPT !.self = r.self,
                            !.call = [status |-> r.status, commits |-> <<>>, c |-> None],
                            !.mutations = @ + 1]
  /\ OnlyMvd

\* A method of the container c, whose MvdInfo is self.  The callback of a
\* container of view definitions is (self._update_keyword("ViewDefinition",
\* val), setattr(self, "_parsed", None)); that of comments is the first of
\* the two, and _update_keyword ends in the setter, which sets _parsed too.
Committed(w, self, r) ==
  IF r.status # "ok"
    THEN [w EXCEPT !.self = self, !.call = [status |-> r.status, commits |-> <<>>, c |-> r.c],
                   !.mutations = @ + 1]
    ELSE LET first == [Updated(w, self, r.c.keyword, r.commits[1]) EXCEPT !.call.c = r.c]
         IN  IF Len(r.commits) = 1 THEN first
             ELSE [Updated(first, first.self, r.c.keyword, r.commits[2])
                     EXCEPT !.call.commits = first.call.commits \o @, !.call.c = r.c,
                            !.mutations = @ - 1]

\* mvd.view_definitions.<method>(...) or mvd.comments.<method>(...): the
\* method of a container made for the call
ContainerCall(keyword, op) ==
  /\ mvd # NoneType /\ mvd.mutations < MaxMutations
  /\ LET self == Parsed(mvd.self)
         c    == Container(self, keyword)
     IN  /\ c # None
         /\ mvd' = Committed(mvd, self, AutoCommitList_method(c, op))
  /\ OnlyMvd

\* c.<method>(...) on the container the caller holds
HeldCall(op) ==
  /\ mvd # NoneType /\ mvd.mutations < MaxMutations
  /\ mvd.held # None
  /\ LET r == AutoCommitList_method(mvd.held, op)
     IN  mvd' = Committed([mvd EXCEPT !.held = r.c], mvd.self, r)
  /\ OnlyMvd

\* mvd.<name>[key] = value: DictionaryHandler.__setitem__ on the handler
\* __getattr__ makes of the parsed keyword.
SetDynamicItem(name, key, value) ==
  /\ mvd # NoneType /\ mvd.mutations < MaxMutations
  /\ LET self == Parsed(mvd.self)
         d    == getattr(self, name)
     IN  /\ d.status = "ok"
         /\ mvd' = Updated(mvd, self, self.parsed.dynamic.map[lower(name)].original_keyword,
                           DictionaryHandler_commit(SetItem(d.value, key, value)))
  /\ OnlyMvd

NextMvd ==
  \/ Mvd
  \/ Read
  \/ \E keyword \in {ViewDefinition, Comment, Remark} : UpdateKeyword(keyword, <<"X">>)
  \/ \E name \in {"view_definitions", "comments", "exchange_requirements", "options"},
        new_value \in NewValues : SetProperty(name, new_value)
  \/ \E new_description \in {<<>>, <<LineB>>} : SetDescription(new_description)
  \/ \E keyword \in {ViewDefinition, Comment}, op \in ListCalls : ContainerCall(keyword, op)
  \/ SetDynamicItem(Remark, <<"k">>, strX)

SpecMvd == InitMvd /\ [][NextMvd]_vars

\* The same with a caller who keeps a container.
NextHeld ==
  \/ NextMvd
  \/ \E keyword \in {ViewDefinition, Comment} : Hold(keyword)
  \/ \E op \in ListCalls : HeldCall(op)

SpecHeld == InitMvd /\ [][NextHeld]_vars

\* ------------------------------------------------------------ parse(): ends
\* raise CollectedValidationErrors(errs)
Raise(errs) ==
  /\ errors' = errs
  /\ outcome' = "raised"
  /\ result' = NoneType
  /\ pc' = "done"

ParseResult(h, e) == [cls |-> "ParseResult", header |-> h, entities |-> e]

Return(errs, value) ==
  IF RaiseIfAny(errs)
    THEN Raise(errs)
    ELSE /\ errors' = errs
         /\ outcome' = "returned"
         /\ result' = value
         /\ pc' = "done"

\* -------------------------------------------------- parse(only_header=True)
\* The HEADER section is cut out of the text; without one the pass ends.
SliceHeader ==
  /\ pc = "start" /\ mode = "header"
  /\ IF HeaderSearch(WithoutComments(Text(filecontent))).found
       THEN /\ pc' = "sliced"
            /\ UNCHANGED <<errors, outcome, result>>
       ELSE Raise(Add(errors, HeaderFieldError("header", "", "No HEADER section found in file")))
  /\ UNCHANGED <<raw, filecontent_wo_comments, mvd>>
  /\ UNCHANGED <<filecontent, mode, calls, prev, ast, header, ents, idx, hf,
                 instance_identifiers, seen, f, q>>

\* The slice, wrapped into a file with an empty DATA section, is parsed.
ParseHeaderText ==
  /\ pc = "sliced"
  /\ LET tree == LarkParse(FullHeaderText(HeaderSearch(WithoutComments(Text(filecontent))).group))
     IN  IF tree.ok
           THEN /\ ast' = tree
                /\ header' = HeaderDict(tree.header)
                /\ hf' = 1
                /\ pc' = "validate"
                /\ UNCHANGED <<errors, outcome, result>>
           ELSE /\ Raise(Add(errors, SyntaxError(tree.line)))
                /\ UNCHANGED <<ast, header, hf>>
  /\ UNCHANGED <<raw, filecontent_wo_comments, mvd>>
  /\ UNCHANGED <<filecontent, mode, calls, prev, ents, idx, instance_identifiers, seen, f, q>>

\* ------------------------------------------------- parse(only_header=False)
\* methods["simple_entity_instance"]: the pairs the skeleton transformer
\* appends while the recognizer reduces the records.
Captured(data) ==
  LET simple == SelectSeq(data, LAMBDA r : r.kind = "simple")
  IN  [i \in 1..Len(simple) |-> <<int(Tail(simple[i].id)), simple[i].lines[1]>>]

\* ParseFile without the raise_if_any that follows the SyntaxError: the
\* skeleton pass goes on to its duplicate loop, the full-tree pass fails on
\* the tree it does not have.
ParseFileNoAbort ==
  /\ pc = "start" /\ mode \in {"tree", "skeleton"}
  /\ LET tree == LarkParse(WithoutComments(Text(filecontent)))
     IN  /\ instance_identifiers' = IF mode = "skeleton" THEN Captured(tree.data) ELSE <<>>
         /\ ast' = IF mode = "tree" /\ tree.ok THEN tree ELSE NoneType
         /\ errors' = IF tree.ok THEN errors ELSE Add(errors, SyntaxError(tree.line))
         /\ idx' = 1
         /\ IF mode = "tree" /\ ~tree.ok
              THEN pc' = "done" /\ outcome' = "crashed"
              ELSE /\ pc' = IF mode = "tree" THEN "process_tree" ELSE "duplicates"
                   /\ UNCHANGED outcome
         /\ UNCHANGED result
  /\ UNCHANGED <<raw, filecontent_wo_comments, mvd>>
  /\ UNCHANGED <<filecontent, mode, calls, prev, header, ents, hf, seen, f, q>>

\* parser.parse(filecontent_wo_comments): a syntax error ends the pass.
ParseFile ==
  /\ pc = "start" /\ mode \in {"tree", "skeleton"}
  /\ LET tree == LarkParse(WithoutComments(Text(filecontent)))
     IN  /\ instance_identifiers' = IF mode = "skeleton" THEN Captured(tree.data) ELSE <<>>
         /\ IF tree.ok
              THEN /\ ast' = IF mode = "tree" THEN tree ELSE NoneType
                   /\ pc' = IF mode = "tree" THEN "process_tree" ELSE "duplicates"
                   /\ idx' = 1
                   /\ UNCHANGED <<errors, outcome, result>>
              ELSE /\ Raise(Add(errors, SyntaxError(tree.line)))
                   /\ UNCHANGED <<ast, idx>>
  /\ UNCHANGED <<raw, filecontent_wo_comments, mvd>>
  /\ UNCHANGED <<filecontent, mode, calls, prev, header, ents, hf, seen, f, q>>

\* process_tree: the header dictionary is built.
BuildHeader ==
  /\ pc = "process_tree"
  /\ header' = HeaderDict(ast.header)
  /\ ents' = EmptyDict
  /\ hf' = 1
  /\ pc' = "validate"
  /\ UNCHANGED <<raw, filecontent_wo_comments, mvd>>
  /\ UNCHANGED <<filecontent, mode, calls, prev, ast, idx, instance_identifiers, seen,
                 errors, outcome, result, f, q>>

\* ValidateField without the raise_if_any of the only_header branch: the
\* error is collected and the loop goes on.
ValidateFieldNoAbort(only_header) ==
  /\ pc = "validate" /\ only_header = (mode = "header")
  /\ LET field    == HEADER_FIELDS[hf].name
         observed == IF Upper(field) \in DOMAIN header THEN header[Upper(field)] ELSE <<>>
         expected == HEADER_FIELDS[hf].fields
     IN  /\ errors' = IF Len(observed) # expected
                        THEN Add(errors, HeaderFieldError(Upper(field), Len(observed), expected))
                        ELSE errors
         /\ hf' = hf + 1
         /\ pc' = IF hf < Len(HEADER_FIELDS) THEN "validate"
                  ELSE IF only_header THEN "return" ELSE "entities"
         /\ UNCHANGED <<outcome, result>>
  /\ UNCHANGED <<raw, filecontent_wo_comments, mvd>>
  /\ UNCHANGED <<filecontent, mode, calls, prev, ast, header, ents, idx,
                 instance_identifiers, seen, f, q>>

\* validate_header_fields: one turn of the loop over HEADER_FIELDS.
ValidateField(only_header) ==
  /\ pc = "validate" /\ only_header = (mode = "header")
  /\ LET field    == HEADER_FIELDS[hf].name
         observed == IF Upper(field) \in DOMAIN header THEN header[Upper(field)] ELSE <<>>
         expected == HEADER_FIELDS[hf].fields
         bad      == Len(observed) # expected
         errs     == IF bad
                       THEN Add(errors, HeaderFieldError(Upper(field), Len(observed), expected))
                       ELSE errors
     IN  IF bad /\ only_header
           THEN Raise(errs) /\ UNCHANGED hf
           ELSE /\ errors' = errs
                /\ hf' = hf + 1
                /\ pc' = IF hf < Len(HEADER_FIELDS) THEN "validate"
                         ELSE IF only_header THEN "return" ELSE "entities"
                /\ UNCHANGED <<outcome, result>>
  /\ UNCHANGED <<raw, filecontent_wo_comments, mvd>>
  /\ UNCHANGED <<filecontent, mode, calls, prev, ast, header, ents, idx,
                 instance_identifiers, seen, f, q>>

\* parse(only_header=True), after the validation: the result has no entity.
ReturnHeader ==
  /\ pc = "return"
  /\ Return(errors, ParseResult(header, EmptyDict))
  /\ UNCHANGED <<raw, filecontent_wo_comments, mvd>>
  /\ UNCHANGED <<filecontent, mode, calls, prev, ast, header, ents, idx, hf,
                 instance_identifiers, seen, f, q>>

\* Insert with the test made on the store instead of the id's list: nothing
\* is stored once the store holds an instance.
InsertUnlessAny(store, ent) ==
  LET touched == Touch(store, ent.id)
  IN  IF \E k \in DOMAIN store.map : store.map[k] # <<>>
        THEN touched
        ELSE [touched EXCEPT !.map[ent.id] = Append(@, ent)]

\* Insert with the later record taking the place of the stored one.
InsertOverwrite(store, ent) ==
  [Touch(store, ent.id) EXCEPT !.map[ent.id] = <<ent>>]

\* The store after process_tree's loop body has handled instance ent.
Insert(store, ent) ==
  LET touched == Touch(store, ent.id)
  IN  IF touched.map[ent.id] # <<>>
        THEN touched
        ELSE [touched EXCEPT !.map[ent.id] = Append(@, ent)]

\* The error process_tree's loop body collects for instance ent, if any.
InsertErrors(store, errs, ent) ==
  IF Touch(store, ent.id).map[ent.id] # <<>>
    THEN Add(errs, DuplicateNameError(ent.id, ent.lines))
    ELSE errs

\* process_tree: one turn of the loop over data.children.
LowerEntity ==
  /\ pc = "entities" /\ idx <= Len(ast.data)
  /\ IF ast.data[idx].kind = "complex"
       THEN /\ outcome' = "crashed"
            /\ pc' = "done"
            /\ UNCHANGED <<ents, errors, idx, result>>
       ELSE LET ent == create_step_entity(ast.data[idx])
            IN  /\ ents' = Insert(ents, ent)
                /\ errors' = InsertErrors(ents, errors, ent)
                /\ idx' = idx + 1
                /\ UNCHANGED <<outcome, result, pc>>
  /\ UNCHANGED <<raw, filecontent_wo_comments, mvd>>
  /\ UNCHANGED <<filecontent, mode, calls, prev, ast, header, hf,
                 instance_identifiers, seen, f, q>>

\* parse(with_tree=True), after process_tree.
ReturnTree ==
  /\ pc = "entities" /\ idx > Len(ast.data)
  /\ Return(errors, ParseResult(header, ents))
  /\ UNCHANGED <<raw, filecontent_wo_comments, mvd>>
  /\ UNCHANGED <<filecontent, mode, calls, prev, ast, header, ents, idx, hf,
                 instance_identifiers, seen, f, q>>

\* parse(with_tree=False): one turn of the loop over instance_identifiers.
CheckIdentifier ==
  /\ pc = "duplicates" /\ idx <= Len(instance_identifiers)
  /\ LET iden   == instance_identifiers[idx][1]
         lineno == instance_identifiers[idx][2]
     IN  IF iden \in seen
           THEN /\ errors' = Add(errors, DuplicateNameError(iden, <<lineno, lineno>>))
                /\ UNCHANGED seen
           ELSE /\ seen' = seen \cup {iden}
                /\ UNCHANGED errors
  /\ idx' = idx + 1
  /\ UNCHANGED <<raw, filecontent_wo_comments, mvd>>
  /\ UNCHANGED <<filecontent, mode, calls, prev, pc, ast, header, ents, hf,
                 instance_identifiers, outcome, result, f, q>>

\* parse(with_tree=False), after the loop: nothing is returned.
ReturnSkeleton ==
  /\ pc = "duplicates" /\ idx > Len(instance_identifiers)
  /\ Return(errors, NoneType)
  /\ UNCHANGED <<raw, filecontent_wo_comments, mvd>>
  /\ UNCHANGED <<filecontent, mode, calls, prev, ast, header, ents, idx, hf,
                 instance_identifiers, seen, f, q>>

\* The caller parses the same file again, in the next mode.
NextCall ==
  /\ pc = "done" /\ calls # <<>>
  /\ prev' = [mode |-> mode, outcome |-> outcome, result |-> result, errors |-> errors]
  /\ mode' = Head(calls)
  /\ calls' = Tail(calls)
  /\ pc' = "start" /\ outcome' = "running"
  /\ ast' = NoneType /\ header' = NoneType
  /\ ents' = EmptyDict /\ idx' = 0 /\ hf' = 0
  /\ instance_identifiers' = <<>> /\ seen' = {}
  /\ errors' = <<>> /\ result' = NoneType
  /\ UNCHANGED <<raw, filecontent_wo_comments, mvd>>
  /\ UNCHANGED <<filecontent, f, q>>

\* ------------------------------------------------------------------ file.py
\* open(): file(parse(...)) on the result of a parse.
Open ==
  /\ pc = "done" /\ outcome = "returned" /\ mode \in {"tree", "header"} /\ calls = <<>>
  /\ f' = [header_ |-> result.header, data_ |-> result.entities]
  /\ pc' = "file"
  /\ UNCHANGED <<raw, filecontent_wo_comments, mvd>>
  /\ UNCHANGED <<filecontent, mode, calls, prev, ast, header, ents, idx, hf,
                 instance_identifiers, seen, errors, outcome, result, q>>

\* f.by_id(id)
ById(id) ==
  /\ pc = "file"
  /\ q' = [op |-> "by_id", id |-> id, answer |-> by_id(f.data_, id)]
  /\ UNCHANGED <<raw, filecontent_wo_comments, mvd>>
  /\ UNCHANGED <<filecontent, mode, calls, prev, pc, ast, header, ents, idx, hf,
                 instance_identifiers, seen, errors, outcome, result, f>>

\* f[key]
GetItem(key) ==
  /\ pc = "file"
  /\ q' = [op |-> "getitem", id |-> key, answer |-> getitem(f.data_, key)]
  /\ UNCHANGED <<raw, filecontent_wo_comments, mvd>>
  /\ UNCHANGED <<filecontent, mode, calls, prev, pc, ast, header, ents, idx, hf,
                 instance_identifiers, seen, errors, outcome, result, f>>

\* f.by_type(type)
ByType(type) ==
  /\ pc = "file"
  /\ q' = [op |-> "by_type", type |-> type, answer |-> by_type(f.data_, type)]
  /\ UNCHANGED <<raw, filecontent_wo_comments, mvd>>
  /\ UNCHANGED <<filecontent, mode, calls, prev, pc, ast, header, ents, idx, hf,
                 instance_identifiers, seen, errors, outcome, result, f>>

\* f.schema
Schema ==
  /\ pc = "file"
  /\ q' = [op |-> "schema", answer |-> [status |-> "ok", value |-> schema(f.header_)]]
  /\ UNCHANGED <<raw, filecontent_wo_comments, mvd>>
  /\ UNCHANGED <<filecontent, mode, calls, prev, pc, ast, header, ents, idx, hf,
                 instance_identifiers, seen, errors, outcome, result, f>>

\* f.schema_version
SchemaVersion ==
  /\ pc = "file"
  /\ q' = [op |-> "schema_version", answer |-> schema_version(f.header_)]
  /\ UNCHANGED <<raw, filecontent_wo_comments, mvd>>
  /\ UNCHANGED <<filecontent, mode, calls, prev, pc, ast, header, ents, idx, hf,
                 instance_identifiers, seen, errors, outcome, result, f>>

\* The keywords a caller asks by_type for.
Keywords ==
  {IFCPERSON, lower(IFCPERSON), <<"I", "f", "c", "W", "a", "l", "l">>,
   <<"I", "F", "C", "D", "O", "O", "R">>}

Next ==
  \/ SliceHeader
  \/ ParseHeaderText
  \/ ParseFile
  \/ BuildHeader
  \/ ValidateField(TRUE)
  \/ ValidateField(FALSE)
  \/ ReturnHeader
  \/ LowerEntity
  \/ ReturnTree
  \/ CheckIdentifier
  \/ ReturnSkeleton
  \/ NextCall
  \/ Open
  \/ \E id \in 0..MaxId + 1 : ById(id)
  \/ \E key \in 0..MaxId + 1 : GetItem(key)
  \/ \E type \in Keywords : ByType(type)
  \/ Schema
  \/ SchemaVersion

Spec == Init /\ [][Next]_vars

\* The same program on the inputs of the lowering.
SpecLower == InitLower /\ [][Next]_vars

\* ------------------------------------------ the preprocessor on short texts
\* Longest text given to the preprocessor alone.
MaxLen == 6

\* The characters of those texts: the two of the comment marks, a character
\* of a token and the line break.
CommentAlphabet == {"/", "*", "a", "\n"}

\* No file is being parsed.
NoParse ==
  /\ Idle
  /\ filecontent = NoneType /\ mode = "none" /\ calls = <<>>
  /\ pc = "none" /\ outcome = "none" /\ f = NoneType

\* parse(filecontent=raw) is entered.
InitComments ==
  /\ NoParse /\ NoMvd
  /\ raw \in SeqsUpTo(CommentAlphabet, MaxLen)
  /\ filecontent_wo_comments = NoneType

\* filecontent_wo_comments = re.sub(p, replace_fn, filecontent)
Preprocess ==
  /\ filecontent_wo_comments = NoneType
  /\ filecontent_wo_comments' = PyStr(sub(raw, 1))
  /\ UNCHANGED <<raw, mvd>>
  /\ UNCHANGED <<filecontent, mode, calls, prev, pc, ast, header, ents, idx, hf,
                 instance_identifiers, seen, errors, outcome, result, f, q>>

NextComments == Preprocess

SpecComments == InitComments /\ [][NextComments]_vars


\* =================================================================== claims
\* What the claims expect, computed from the description of the input alone.

\* The line on which record i of file d begins: ISO-10303-21; is line 1, the
\* header section takes five lines, DATA; one.
FirstLine(d, i) ==
  LET RECURSIVE Above(_)
      Above(j) == IF j = 0 THEN 0 ELSE Above(j - 1) + d.data[j].h + d.data[j].tail
  IN  (IF d.hasHeader THEN 8 ELSE 3) + Above(i - 1)

\* Whether record i of file d is simple and repeats the id of an earlier
\* simple record.
Repeats(d, i) ==
  /\ d.data[i].kind = "simple"
  /\ \E j \in 1..i - 1 : d.data[j].kind = "simple" /\ d.data[j].id = d.data[i].id

\* The positions of the repeating records of d, in source order.
Repeating(d) == SelectSeq([i \in 1..Len(d.data) |-> i], LAMBDA i : Repeats(d, i))

\* The first record of d declared with the id of record i.
FirstWithId(d, i) ==
  CHOOSE j \in 1..i : /\ d.data[j].id = d.data[i].id
                      /\ \A l \in 1..j - 1 : d.data[l].id # d.data[i].id

\* The arities of FILE_DESCRIPTION, FILE_NAME and FILE_SCHEMA.
ExpectedArity == <<2, 7, 1>>
FieldName == <<"FILE_DESCRIPTION", "FILE_NAME", "FILE_SCHEMA">>

\* The header entities of d with a wrong parameter count, in header order.
Mismatching(d) == SelectSeq(<<1, 2, 3>>, LAMBDA k : d.n[k] # ExpectedArity[k])

\* The errors of class c among errs, in order.
OfClass(errs, c) == SelectSeq(errs, LAMBDA e : e.cls = c)

HasSyntaxError == OfClass(errors, "SyntaxError") # <<>>

\* ----------------------------------------------------------------------- C1
\* C1: after a full-tree parse that returned (no diagnostic was collected),
\* every id of the entity store is bound to a list of exactly one instance,
\* and every record of the DATA section is stored under its id, with its
\* type, attributes and lines.
C1_StoreAfterSuccess ==
  (mode = "tree" /\ outcome = "returned") =>
    LET store == result.entities
        d     == filecontent
    IN  /\ \A id \in DOMAIN store.map : Len(store.map[id]) = 1
        /\ \A i \in 1..Len(d.data) :
             /\ Has(store, d.data[i].id)
             /\ store.map[d.data[i].id] =
                  << [id |-> d.data[i].id, type |-> PyStr(d.data[i].type),
                      attributes |-> <<None, PyStr(Alice)>>,
                      lines |-> <<FirstLine(d, i), FirstLine(d, i) + d.data[i].h - 1>>] >>
        /\ Len(store.keys) = Len(d.data)

\* A full-tree parse returned a store of two instances.
C1_Witness ==
  /\ mode = "tree" /\ outcome = "returned"
  /\ Len(filecontent.data) = 2
  /\ Cardinality(DOMAIN result.entities.map) = 2

\* ----------------------------------------------------------------------- C2
\* C2: in a full-tree parse, a record whose id is already stored leaves the
\* store as it is and adds exactly one DuplicateNameError with that id; a
\* record with a new id is stored and adds no error; no step of the parse
\* changes the list an id is bound to once it holds an instance; and at the
\* end of the loop there is one DuplicateNameError for each later record.
C2_Step ==
  /\ \A id \in DOMAIN ents.map :
       (ents.map[id] # <<>> /\ prev' = prev) =>
         (Has(ents', id) /\ ents'.map[id] = ents.map[id])
  /\ (pc = "entities" /\ idx' = idx + 1) =>
       LET t == ast.data[idx]
           r == [id |-> int(Tail(t.id))]
       IN  IF Has(ents, r.id)
             THEN /\ ents' = ents
                  /\ Len(errors') = Len(errors) + 1
                  /\ SubSeq(errors', 1, Len(errors)) = errors
                  /\ errors'[Len(errors')].cls = "DuplicateNameError"
                  /\ errors'[Len(errors')].name = r.id
             ELSE /\ errors' = errors
                  /\ ents'.map[r.id] = <<create_step_entity(t)>>
                  /\ ents'.keys = Append(ents.keys, r.id)

C2_End ==
  (mode = "tree" /\ pc = "done" /\ outcome = "raised" /\ ~HasSyntaxError) =>
    LET dups == OfClass(errors, "DuplicateNameError")
        reps == Repeating(filecontent)
    IN  /\ Len(dups) = Len(reps)
        /\ \A k \in 1..Len(dups) : dups[k].name = filecontent.data[reps[k]].id

\* C2: a duplicate id never displaces or joins the stored instance (every
\* step satisfies C2_Step) and each later declaration has its one
\* DuplicateNameError when the loop has ended (C2_End).
C2_InsertKeepsFirst == [][C2_Step]_vars /\ []C2_End

\* A full-tree parse has met the third declaration of an id: two errors, and
\* the store still holds the first instance.
C2_Witness ==
  /\ mode = "tree" /\ pc = "entities" /\ idx = 4
  /\ Len(OfClass(errors, "DuplicateNameError")) = 2
  /\ ents.map[1] = <<create_step_entity(ast.data[1])>>

\* ----------------------------------------------------------------------- C3
\* The DuplicateNameErrors of a finished pass over the whole file, as
\* (name, lineno) pairs in the order they were collected.
ReportedDuplicates ==
  LET dups == OfClass(errors, "DuplicateNameError")
  IN  [k \in 1..Len(dups) |-> <<dups[k].name, Lineno(dups[k])>>]

PassOverFileEnded ==
  /\ mode \in {"tree", "skeleton"} /\ pc = "done"
  /\ outcome \in {"returned", "raised"} /\ ~HasSyntaxError

\* C3 as stated: each DuplicateNameError carries the id and the line of the
\* FIRST declaration of that id.
C3_LinenoOfFirstDeclaration ==
  PassOverFileEnded =>
    LET d    == filecontent
        reps == Repeating(d)
    IN  ReportedDuplicates =
          [k \in 1..Len(reps) |->
             <<d.data[reps[k]].id, FirstLine(d, FirstWithId(d, reps[k]))>>]

\* C3 (amended): when the pass over the file ends, there is exactly one
\* DuplicateNameError for each simple record that repeats the id of an
\* earlier simple record; its name is that id and its lineno is the first
\* line of the LATER record, the duplicate.
C3_LinenoOfDuplicate ==
  PassOverFileEnded =>
    LET d    == filecontent
        reps == Repeating(d)
    IN  ReportedDuplicates =
          [k \in 1..Len(reps) |-> <<d.data[reps[k]].id, FirstLine(d, reps[k])>>]

\* Two records with the same id, the second on two lines: one error, on the
\* first line of the second record.
C3_Witness ==
  /\ mode = "tree" /\ pc = "done" /\ outcome = "raised"
  /\ Len(filecontent.data) = 2
  /\ filecontent.data[2].h = 2
  /\ Len(ReportedDuplicates) = 1
  /\ ReportedDuplicates[1] = <<filecontent.data[1].id, FirstLine(filecontent, 2)>>
  /\ FirstLine(filecontent, 1) < FirstLine(filecontent, 2)

\* ----------------------------------------------------------------------- C4
\* The HeaderFieldErrors validate_header_fields collects for file d when it
\* checks all three entities.
ExpectedHeaderErrors(d) ==
  LET bad == Mismatching(d)
  IN  [k \in 1..Len(bad) |->
         [cls |-> "HeaderFieldError", field |-> FieldName[bad[k]],
          found_len |-> d.n[bad[k]], expected_len |-> ExpectedArity[bad[k]]]]

\* One DuplicateNameError for each record of d that repeats an earlier id.
ExpectedDuplicateErrors(d) ==
  LET later == SelectSeq([i \in 1..Len(d.data) |-> i],
                         LAMBDA i : \E j \in 1..i - 1 : d.data[j].id = d.data[i].id)
  IN  [k \in 1..Len(later) |->
         [cls |-> "DuplicateNameError", name |-> d.data[later[k]].id,
          linenumbers |-> <<FirstLine(d, later[k]),
                            FirstLine(d, later[k]) + d.data[later[k]].h - 1>>]]

\* C4: a full-tree parse of a text the grammar accepts collects the header
\* arity errors first, in header order, then lowers every record and
\* collects the duplicates; it ends by returning a ParseResult if nothing
\* was collected and by raising the collected list otherwise.
C4_CollectAll ==
  (mode = "tree" /\ pc = "done" /\ ~HasSyntaxError) =>
    /\ outcome \in {"returned", "raised"}
    /\ errors = ExpectedHeaderErrors(filecontent) \o ExpectedDuplicateErrors(filecontent)
    /\ (outcome = "returned") = (errors = <<>>)
    /\ outcome = "returned" => result.cls = "ParseResult"

\* The same, for the files whose records are all simple: the part of C4 that
\* the code keeps.
C4_CollectAllSimple ==
  (\A i \in 1..Len(filecontent.data) : filecontent.data[i].kind = "simple")
    => C4_CollectAll

\* ----------------------------------------------------------------------- C5
\* The header slice of file d is a text the grammar accepts.
SliceParses(d) ==
  LarkParse(FullHeaderText(HeaderSearch(Text(d)).group)).ok

\* C5: under only_header an error is raised in the step that collects it, so
\* the collector never holds more than one; the raised error is the one of
\* the first defect met (no HEADER section, then a syntax error in the slice,
\* then the first entity with a wrong arity), no header entity after the
\* failing one has been validated, and nothing moves after the raise.
C5_State ==
  (mode = "header" /\ errors # <<>>) =>
    LET d == filecontent
    IN  /\ outcome = "raised" /\ pc = "done"
        /\ Len(errors) = 1
        /\ IF ~HeaderSearch(Text(d)).found
             THEN /\ errors[1].cls = "HeaderFieldError" /\ errors[1].field = "header"
                  /\ header = NoneType /\ hf = 0
             ELSE IF ~SliceParses(d)
               THEN errors[1].cls = "SyntaxError" /\ header = NoneType /\ hf = 0
               ELSE /\ errors[1] = ExpectedHeaderErrors(d)[1]
                    /\ hf = Mismatching(d)[1]

C5_Step ==
  (mode = "header" /\ outcome = "raised" /\ prev' = prev) =>
    UNCHANGED <<errors, hf, header, ents, outcome, result>>

\* C5: a header-only parse raises exactly the first defect's error
\* (C5_State) and does nothing more once it has raised (C5_Step).
C5_FailFast == []C5_State /\ [][C5_Step]_vars

\* FILE_DESCRIPTION and FILE_NAME both have a wrong arity: the header-only
\* parse raised FILE_DESCRIPTION's error and never looked at FILE_NAME.
C5_Witness ==
  /\ mode = "header" /\ outcome = "raised"
  /\ filecontent.n[1] # 2 /\ filecontent.n[2] # 7
  /\ errors = <<HeaderFieldError("FILE_DESCRIPTION", filecontent.n[1], 2)>>
  /\ hf = 1

\* ----------------------------------------------------------------------- C6
\* C6: in every mode, a text the recognizer rejects ends the pass with a
\* SyntaxError; whenever the collector holds a SyntaxError it holds nothing
\* else, the pass has been ended by raising it, no header was built or
\* validated, no entity was lowered or stored, no identifier was checked for
\* duplicates and no result was returned; and nothing moves afterwards.
C6_State ==
  /\ HasSyntaxError =>
       /\ Len(errors) = 1
       /\ outcome = "raised" /\ pc = "done"
       /\ result = NoneType
       /\ header = NoneType /\ hf = 0
       /\ ents = EmptyDict /\ seen = {}
       /\ f = NoneType
  /\ (mode \in {"tree", "skeleton"} /\ pc # "start"
        /\ ~LarkParse(Text(filecontent)).ok) => HasSyntaxError
  /\ (mode = "header" /\ pc \notin {"start", "sliced"}
        /\ HeaderSearch(Text(filecontent)).found /\ ~SliceParses(filecontent))
       => HasSyntaxError

C6_Step ==
  (HasSyntaxError /\ prev' = prev) =>
    UNCHANGED <<errors, outcome, result, header, hf, ents, seen, idx, pc>>

\* C6: a SyntaxError is raised alone and at once, before any validation
\* (C6_State), and the pass does nothing more afterwards (C6_Step).
C6_SyntaxErrorIsFatal == []C6_State /\ [][C6_Step]_vars

\* A skeleton pass over a text with two declarations of one id and a defect
\* after them: the identifiers were captured, and only the SyntaxError is
\* raised.
C6_Witness ==
  /\ mode = "skeleton" /\ outcome = "raised"
  /\ errors = <<SyntaxError(errors[1].lineno)>>
  /\ Len(instance_identifiers) = 2
  /\ instance_identifiers[1][1] = instance_identifiers[2][1]

\* ----------------------------------------------------------------------- C7
\* The header has been validated, as far as the mode validates it.
HeaderValidated ==
  \/ mode = "tree" /\ pc \in {"entities", "done"} /\ ~HasSyntaxError
  \/ mode = "header" /\ pc \in {"return", "done"} /\ header # NoneType

\* C7 as stated: whenever the header has been validated, there is exactly
\* one HeaderFieldError for each entity with a wrong parameter count and
\* none for the others.
C7_EveryMismatchReported ==
  HeaderValidated =>
    OfClass(errors, "HeaderFieldError") = ExpectedHeaderErrors(filecontent)

\* C7 (amended): a full-tree parse collects exactly one HeaderFieldError
\* (upper-case name, observed count, arity) for each header entity with a
\* wrong parameter count, in header order, and none for the others; a
\* header-only parse collects that error for the first such entity only and
\* stops; a skeleton parse validates no header entity.
C7_HeaderArity ==
  LET d    == filecontent
      hfes == OfClass(errors, "HeaderFieldError")
      all  == ExpectedHeaderErrors(d)
  IN  /\ (HeaderValidated /\ mode = "tree") => hfes = all
      /\ (HeaderValidated /\ mode = "header") =>
           hfes = IF all = <<>> THEN <<>> ELSE <<all[1]>>
      /\ mode = "skeleton" => hfes = <<>> /\ hf = 0

\* A full-tree parse of a header whose FILE_NAME has 6 parameters, the other
\* two entities being right.
C7_Witness ==
  /\ mode = "tree" /\ pc = "done"
  /\ filecontent.n = <<2, 6, 1>>
  /\ errors = <<HeaderFieldError("FILE_NAME", 6, 7)>>

\* ----------------------------------------------------------------------- C8
\* File d with its DATA section emptied.
WithoutData(d) == [d EXCEPT !.data = <<>>, !.junk = FALSE]

\* The header section of d is written HEADER; ... ENDSEC; with well-formed
\* entities of the right arity and no ENDSEC; inside a string.
PlainHeader(d) ==
  /\ d.hasHeader /\ ~d.spHeader /\ ~d.spEndsec
  /\ d.hbody = "ok" /\ d.n = ExpectedArity

HeaderAfterFull ==
  /\ prev.mode = "tree" /\ prev.outcome = "returned"
  /\ mode = "header" /\ pc = "done"

\* C9: when the full-tree parse of a file returns, the header-only parse of
\* the same file returns too, with the same header map and an empty entity
\* map.
C9_HeaderOnlyAgrees ==
  HeaderAfterFull =>
    /\ outcome = "returned"
    /\ result.header = prev.result.header
    /\ DOMAIN result.header = {"FILE_DESCRIPTION", "FILE_NAME", "FILE_SCHEMA"}
    /\ result.entities = EmptyDict

\* The same for the files with a plain header, where the regular expression
\* and the grammar cut the same header section.
C9_HeaderOnlyAgreesPlain ==
  PlainHeader(filecontent) => C9_HeaderOnlyAgrees

\* ---------------------------------------------------------------------- C10
\* The list the store of f holds for the id of the last query.
Asked == q.op \in {"by_id", "getitem"}
Stored == Has(f.data_, q.id)
StoredList == IF Stored THEN f.data_.map[q.id] ELSE <<>>

\* C10 as stated: by_id(id) and f[id] return the instance when the list
\* stored for id has exactly one, fail with "not found" when id is absent,
\* fail with "duplicate" when the stored list has any other length; and on
\* the store of a parse "duplicate" never comes out.
C10_DuplicateUnlessOne ==
  Asked =>
    /\ (Stored /\ Len(StoredList) = 1) =>
         q.answer = [status |-> "ok", value |-> StoredList[1]]
    /\ ~Stored => q.answer.status = "not found"
    /\ (Stored /\ Len(StoredList) # 1) => q.answer.status = "duplicate"
    /\ mode # "direct" => q.answer.status # "duplicate"

\* C10 (amended): by_id(id) and f[id] return the instance when the list
\* stored for id has exactly one (so every instance of the store is found
\* under its id), fail with "not found" when id is absent or bound to an
\* empty list, fail with "duplicate" when the stored list has more than one
\* instance; and on the store of a parse "duplicate" never comes out.
C10_ById ==
  Asked =>
    /\ (Stored /\ Len(StoredList) = 1) =>
         /\ q.answer = [status |-> "ok", value |-> StoredList[1]]
         /\ mode # "direct" => q.answer.value.id = q.id
    /\ (~Stored \/ StoredList = <<>>) => q.answer.status = "not found"
    /\ (Stored /\ Len(StoredList) > 1) => q.answer.status = "duplicate"
    /\ mode # "direct" => q.answer.status # "duplicate"

\* f[2] on the store of a full-tree parse of two records returned the
\* second record's instance.
C10_Witness ==
  /\ mode = "tree" /\ q.op = "getitem" /\ q.id = 2
  /\ Len(f.data_.keys) = 2
  /\ q.answer.status = "ok"
  /\ q.answer.value = f.data_.map[2][1]

\* ---------------------------------------------------------------------- C11
\* Whether the keywords a and b are the same when letter case is ignored.
SameIgnoringCase(a, b) ==
  /\ Len(a) = Len(b)
  /\ \A i \in 1..Len(a) :
       \/ a[i] = b[i]
       \/ \E j \in 1..Len(UPPER) : {a[i], b[i]} = {UPPER[j], LOWER[j]}

\* The records of file d a parse in the running mode stores.
StoredRecords(d) == IF mode = "tree" THEN d.data ELSE <<>>

\* C11: by_type(k) on the file object of a parse answers with the stored
\* instances of exactly the records whose keyword is k up to letter case, in
\* the order in which the records stand in the source.
C11_ByType ==
  (pc = "file" /\ q.op = "by_type") =>
    LET match == SelectSeq(StoredRecords(filecontent),
                           LAMBDA r : SameIgnoringCase(r.type, q.type))
    IN  /\ Len(q.answer) = Len(match)
        /\ \A i \in 1..Len(match) :
             /\ q.answer[i] = f.data_.map[match[i].id][1]
             /\ q.answer[i].id = match[i].id
             /\ q.answer[i].type = PyStr(match[i].type)

\* by_type("ifcperson") answered with #2 and then #1, as the source declares
\* them.
C11_Witness ==
  /\ pc = "file" /\ q.op = "by_type" /\ q.type = lower(IFCPERSON)
  /\ Len(q.answer) = 2
  /\ q.answer[1].id = 2 /\ q.answer[2].id = 1

\* ---------------------------------------------------------------------- C12
\* C12: after a successful full-tree parse every stored entity has an id
\* greater than 0, and the records the pass treats as declaring an id again
\* (one DuplicateNameError each, at the end of a full-tree or skeleton pass)
\* are exactly the records whose id token denotes the integer of an earlier
\* record's id token.
C12_PositiveIds ==
  /\ (mode = "tree" /\ outcome = "returned") =>
       \A id \in DOMAIN result.entities.map :
         \A i \in 1..Len(result.entities.map[id]) : result.entities.map[id][i].id > 0
  /\ PassOverFileEnded =>
       Len(OfClass(errors, "DuplicateNameError")) = Len(Repeating(filecontent))

\* The part of C12 about equal ids: #01 and #1 are one id, #1 and #2 are two.
C12_SameInteger ==
  PassOverFileEnded =>
    /\ Len(OfClass(errors, "DuplicateNameError")) = Len(Repeating(filecontent))
    /\ (mode = "tree" /\ outcome = "returned") =>
         \A i \in 1..Len(filecontent.data) :
           /\ Has(result.entities, filecontent.data[i].id)
           /\ result.entities.map[filecontent.data[i].id][1].id = filecontent.data[i].id

\* "#01=...;" after "#1=...;" was reported as a duplicate.
C12_Witness ==
  /\ PassOverFileEnded /\ Len(filecontent.data) = 2
  /\ filecontent.data[1].id = 1 /\ filecontent.data[1].zeros = 0
  /\ filecontent.data[2].id = 1 /\ filecontent.data[2].zeros = 1
  /\ Len(OfClass(errors, "DuplicateNameError")) = 1

\* ---------------------------------------------------------------------- C13
\* The line on which record i of file d ends, with its closing ")" and ";".
LastLine(d, i) == FirstLine(d, i) + d.data[i].h - 1 + d.data[i].tail

\* C13: the line span of every instance a full-tree parse stored runs from the
\* line of the record's "#id" to the line of its closing ");", first <= last.
C13_LineSpan ==
  (mode = "tree" /\ outcome = "returned") =>
    \A i \in 1..Len(filecontent.data) :
      LET e == result.entities.map[filecontent.data[i].id][1]
      IN  /\ e.lines[1] <= e.lines[2]
          /\ e.lines = <<FirstLine(filecontent, i), LastLine(filecontent, i)>>

\* What holds of the span: it begins on the line of "#id", first <= last, and
\* it ends on the line of the record's last token other than "=", "(", ",",
\* ")", ";" and the quotes of a string, which is no later than the line the
\* record ends on.
C13_SpanOfKeptTokens ==
  (mode = "tree" /\ outcome = "returned") =>
    \A i \in 1..Len(filecontent.data) :
      LET r == filecontent.data[i]
          e == result.entities.map[r.id][1]
          n == Len(r.attributes)
      IN  /\ e.lines[1] = FirstLine(filecontent, i)
          /\ e.lines[1] <= e.lines[2]
          /\ e.lines[2] <= LastLine(filecontent, i)
          /\ (HasTokens(Written(r.attributes[n])) /\ r.tail = 0)
               => e.lines[2] = LastLine(filecontent, i)

\* A record on two lines whose span is one line: the closing ");" stands on
\* the second.
C13_Witness ==
  /\ mode = "tree" /\ outcome = "returned" /\ Len(filecontent.data) = 1
  /\ filecontent.data[1].h = 1 /\ filecontent.data[1].tail = 1
  /\ result.entities.map[1][1].lines = <<8, 8>>

\* ---------------------------------------------------------------------- C14
\* The instance a returned full-tree parse stored for record i, and the
\* string attributes of the records (place <<i, j>>: attribute j of record i).
StoredFor(i) == result.entities.map[filecontent.data[i].id][1]

StringPlaces ==
  {p \in (1..Len(filecontent.data)) \X (1..6) :
     /\ p[2] <= Len(filecontent.data[p[1]].attributes)
     /\ filecontent.data[p[1]].attributes[p[2]].v = "String"}

UnitsAt(p) == filecontent.data[p[1]].attributes[p[2]].units

\* The text C14 expects of a string: one apostrophe for each '' and every
\* other character of the body, in order.
ApostrophesUnfolded(us) ==
  Flatten([i \in 1..Len(us) |-> IF us[i].u = "apostrophe" THEN <<"'">> ELSE us[i].cs])

\* C14: every string attribute of a stored instance is the body of its
\* literal with each '' decoded to one apostrophe and all other characters
\* kept in order.
C14_Apostrophes ==
  (mode = "tree" /\ outcome = "returned") =>
    \A p \in StringPlaces :
      StoredFor(p[1]).attributes[p[2]] = PyStr(ApostrophesUnfolded(UnitsAt(p)))

\* C14 for the bodies without the characters \*\ and without the shape of a
\* comment: it holds of them.
C14_ApostrophesPlain ==
  (mode = "tree" /\ outcome = "returned") =>
    \A p \in StringPlaces :
      (\A i \in 1..Len(UnitsAt(p)) : UnitsAt(p)[i].u \notin {"literal", "comment"}) =>
        StoredFor(p[1]).attributes[p[2]] = PyStr(ApostrophesUnfolded(UnitsAt(p)))

\* 'N '' q' was stored as N ' q.
C14_Witness ==
  /\ mode = "tree" /\ outcome = "returned" /\ Len(filecontent.data) = 1
  /\ filecontent.data[1].attributes = <<String(<<Ch("N"), Ch(" "), Apos, Ch(" "), Ch("q")>>)>>
  /\ StoredFor(1).attributes[1] = PyStr(<<"N", " ", "'", " ", "q">>)

\* ---------------------------------------------------------------------- C15
\* The text C15 expects of a string: one backslash for each \\, one
\* apostrophe for each '', control directives and all else as written.
Unfolded(us) ==
  Flatten([i \in 1..Len(us) |-> IF us[i].u = "apostrophe" THEN <<"'">>
                                ELSE IF us[i].u = "backslash" THEN <<"\\">>
                                ELSE us[i].cs])

\* C15: every string attribute of a stored instance whose body is made of
\* characters, '', \\ and control directives is the body with each \\
\* unfolded to one backslash and the control directives as they are written.
C15_Backslashes ==
  (mode = "tree" /\ outcome = "returned") =>
    \A p \in StringPlaces :
      (\A i \in 1..Len(UnitsAt(p)) : UnitsAt(p)[i].u # "literal") =>
        StoredFor(p[1]).attributes[p[2]] = PyStr(Unfolded(UnitsAt(p)))

\* What holds of backslashes and control directives: both stay as written.
C15_AsWritten ==
  (mode = "tree" /\ outcome = "returned") =>
    \A p \in StringPlaces :
      (\A i \in 1..Len(UnitsAt(p)) : UnitsAt(p)[i].u \in {"backslash", "directive", "character"}) =>
        StoredFor(p[1]).attributes[p[2]] =
          PyStr(Flatten([i \in 1..Len(UnitsAt(p)) |-> UnitsAt(p)[i].cs]))

\* ---------------------------------------------------------------------- C16
\* The attributes of the records, by place.
Places ==
  {p \in (1..Len(filecontent.data)) \X (1..6) :
     p[2] <= Len(filecontent.data[p[1]].attributes)}

ValueAt(p) == filecontent.data[p[1]].attributes[p[2]]
StoredAt(p) == StoredFor(p[1]).attributes[p[2]]

\* C16: in every stored instance an attribute written $ is None, which is no
\* string (not "$", not the empty string, not the value of any string
\* attribute of the file), and an attribute written as a string is a str.
C16_Null ==
  (mode = "tree" /\ outcome = "returned") =>
    \A p \in Places :
      /\ ValueAt(p).v = "Null" =>
           /\ StoredAt(p) = None
           /\ StoredAt(p) # PyStr(<<"$">>) /\ StoredAt(p) # PyStr(<<>>)
           /\ \A s \in Places : ValueAt(s).v = "String" => StoredAt(s) # StoredAt(p)
      /\ ValueAt(p).v = "String" => StoredAt(p).cls = "str"

\* "#1=IFCPERSON(50.0,5,$,'$','');" was stored: attributes[2] is None beside
\* the strings "$" and "".
C16_Witness ==
  /\ mode = "tree" /\ outcome = "returned" /\ Len(filecontent.data) = 1
  /\ Len(filecontent.data[1].attributes) = 5
  /\ ValueAt(<<1, 3>>) = Null
  /\ StoredAt(<<1, 3>>) = None
  /\ StoredAt(<<1, 4>>) = PyStr(<<"$">>)
  /\ StoredAt(<<1, 5>>) = PyStr(<<>>)

\* ---------------------------------------------------------------------- C17
\* C17: two attributes of a stored instance that were written as values of
\* different variants (a reference and an integer, an enumeration and a
\* string, * and a string, ...) are not equal.
C17_VariantsApart ==
  (mode = "tree" /\ outcome = "returned") =>
    \A p \in Places : \A s \in Places :
      ValueAt(p).v # ValueAt(s).v => ~PyEq(StoredAt(p), StoredAt(s))

\* What the lowering of "#1=IFCPERSON(#5,5,.KW.,'KW',*,'*');" stores: 5 and
\* 5, "KW" and "KW", "*" and "*".
C17_Conflated ==
  (/\ mode = "tree" /\ outcome = "returned" /\ Len(filecontent.data) = 1
   /\ filecontent.data[1].attributes =
        <<Ref(5), Integer(5), Enum(KW), String(Chars(KW)), Omitted, String(<<Ch("*")>>)>>)
    => StoredFor(1).attributes =
         <<PyInt(5), PyInt(5), PyStr(KW), PyStr(KW), PyStr(<<"*">>), PyStr(<<"*">>)>>

\* ---------------------------------------------------------------------- C18
\* The records of d, simple or complex, declared with the id of an earlier
\* record.
RepeatingOfAnyKind(d) ==
  SelectSeq([i \in 1..Len(d.data) |-> i],
            LAMBDA i : \E j \in 1..i - 1 : d.data[j].id = d.data[i].id)

\* C18: a full-tree parse of an accepted text with a complex record ends
\* without any other error than the collected diagnostics; when it returns,
\* every complex record is stored under its id as one instance; and the
\* records reported as duplicates are those, simple or complex, declared with
\* the id of an earlier record.
C18_ComplexLowered ==
  (/\ mode = "tree" /\ pc = "done" /\ ~HasSyntaxError
   /\ \E i \in 1..Len(filecontent.data) : filecontent.data[i].kind = "complex") =>
    /\ outcome \in {"returned", "raised"}
    /\ Len(OfClass(errors, "DuplicateNameError")) = Len(RepeatingOfAnyKind(filecontent))
    /\ outcome = "returned" =>
         \A i \in 1..Len(filecontent.data) :
           filecontent.data[i].kind = "complex" =>
             /\ Has(result.entities, filecontent.data[i].id)
             /\ Len(result.entities.map[filecontent.data[i].id]) = 1

\* What the code does with a complex record: the full-tree pass ends in an
\* AttributeError at the first one, whatever was collected before it; the
\* skeleton pass leaves it out of the duplicate check.
C18_ComplexCrashes ==
  /\ (mode = "tree" /\ pc = "done" /\ ~HasSyntaxError) =>
       ((outcome = "crashed") =
          (\E i \in 1..Len(filecontent.data) : filecontent.data[i].kind = "complex"))
  /\ (mode = "skeleton" /\ pc = "done" /\ ~HasSyntaxError) =>
       Len(OfClass(errors, "DuplicateNameError")) = Len(Repeating(filecontent))

\* ---------------------------------------------------------------------- C19
\* How a schema identifier is put together: what stands before the groups,
\* and the text of the IFC, X, _ADD and _TC groups (<<>>: absent).
PartsOf(cs) ==
  LET part(k) == {<<>>} \cup {prefixes[k] \o ds : ds \in Numbers}
  IN  CHOOSE t \in {<<>>, <<"Z">>} \X part(1) \X part(2) \X part(3) \X part(4) :
        t[1] \o t[2] \o t[3] \o t[4] \o t[5] = cs

\* The groups the prefix pattern captures at the head of the identifier.
Captured19(cs) ==
  LET t == PartsOf(cs)
  IN  IF t[1] # <<>> THEN <<<<>>, <<>>, <<>>, <<>>>> ELSE <<t[2], t[3], t[4], t[5]>>

\* C19: schema is the text of the first two captured groups, one after the
\* other; the _ADD and _TC groups add nothing.
C19_Schema ==
  (pc = "file" /\ q.op = "schema") =>
    LET g == Captured19(filecontent.schema)
    IN  q.answer = [status |-> "ok", value |-> PyStr(g[1] \o g[2])]

\* C19 for the identifiers whose IFC and X numbers are written without a
\* leading zero and are not 0: it holds of them.
C19_SchemaOfPlainNumbers ==
  (pc = "file" /\ q.op = "schema") =>
    LET t == PartsOf(filecontent.schema)
        plain(g, k) == g = <<>> \/ g = prefixes[k] \o <<"4">>
    IN  (plain(t[2], 1) /\ plain(t[3], 2)) => C19_Schema

\* ---------------------------------------------------------------------- C20
\* The number written in group g of prefix k; 0 for an absent group.
NumberOf(g, k) == IF g = <<>> THEN 0 ELSE int(SubSeq(g, Len(prefixes[k]) + 1, Len(g)))

\* C20: schema_version answers with the tuple of the four numbers of the IFC,
\* X, _ADD and _TC groups of the schema identifier, 0 for an absent group.
C20_SchemaVersion ==
  (pc = "file" /\ q.op = "schema_version") =>
    LET g == Captured19(filecontent.schema)
    IN  q.answer = [status |-> "ok",
                    value |-> PyTuple([k \in 1..4 |-> PyInt(NumberOf(g[k], k))])]

\* What the code does: the property fails on every file object.
C20_AlwaysFails ==
  (pc = "file" /\ q.op = "schema_version") => q.answer.status = "AttributeError"

\* ------------------------------------------------------------------- C21
\* The comment spans of cs from position i on: a span begins at the first
\* "/*" that is not inside an earlier span and has a "*/" after it, and ends
\* with the nearest such "*/".
RECURSIVE Spans(_, _)
Spans(cs, i) ==
  LET begins == {a \in i..Len(cs) - 3 :
                   /\ cs[a] = "/" /\ cs[a + 1] = "*"
                   /\ \E b \in a + 2..Len(cs) - 1 : cs[b] = "*" /\ cs[b + 1] = "/"}
  IN  IF begins = {} THEN {}
      ELSE LET a == Min(begins)
               b == Min({k \in a + 2..Len(cs) - 1 : cs[k] = "*" /\ cs[k + 1] = "/"})
           IN  {<<a, b + 1>>} \cup Spans(cs, b + 2)

InSpan(cs, k) == \E s \in Spans(cs, 1) : s[1] <= k /\ k <= s[2]

\* The line and the column of position k of cs, both from 1.
LineCol(cs, k) ==
  LET breaks == {j \in 1..k - 1 : cs[j] = "\n"}
  IN  <<Cardinality(breaks) + 1, k - (IF breaks = {} THEN 0 ELSE Max(breaks))>>

\* C21: the preprocessor's output is as long as its input; a character in a
\* terminated comment span is a line break if it was one and a space if not;
\* a character outside every span is the one of the input, and stands on the
\* same line and column.
C21_OnlyComments ==
  filecontent_wo_comments # NoneType =>
    LET out == filecontent_wo_comments.v
    IN  /\ Len(out) = Len(raw)
        /\ \A k \in 1..Len(raw) :
             /\ (raw[k] = "\n") <=> (out[k] = "\n")
             /\ IF InSpan(raw, k)
                  THEN out[k] = (IF raw[k] = "\n" THEN "\n" ELSE " ")
                  ELSE out[k] = raw[k] /\ LineCol(out, k) = LineCol(raw, k)

\* A comment with a line break in it, and a character of a token after it,
\* has been through the preprocessor.
C21_Witness ==
  /\ filecontent_wo_comments # NoneType
  /\ \E s \in Spans(raw, 1) :
       /\ \E k \in s[1]..s[2] : raw[k] = "\n"
       /\ s[2] < Len(raw) /\ raw[s[2] + 1] = "a"

\* ------------------------------------------------------------------- C22
\* C22: a string attribute written of plain characters and of characters of
\* the shape /* ... */ is stored with all of them, as they are written.
C22_NotInStrings ==
  (mode = "tree" /\ outcome = "returned") =>
    \A p \in StringPlaces :
      (\A i \in 1..Len(UnitsAt(p)) : UnitsAt(p)[i].u \in {"character", "comment"}) =>
        StoredAt(p) = PyStr(Flatten([i \in 1..Len(UnitsAt(p)) |-> UnitsAt(p)[i].cs]))

\* What holds instead: the preprocessor knows no string literal, and the
\* characters of the shape of a comment are stored as so many spaces.
C22_BlankedInStrings ==
  (mode = "tree" /\ outcome = "returned") =>
    \A p \in StringPlaces :
      (\A i \in 1..Len(UnitsAt(p)) : UnitsAt(p)[i].u \in {"character", "comment"}) =>
        StoredAt(p) = PyStr(Flatten([i \in 1..Len(UnitsAt(p)) |->
                                       IF UnitsAt(p)[i].u = "comment"
                                         THEN [j \in 1..Len(UnitsAt(p)[i].cs) |-> " "]
                                         ELSE UnitsAt(p)[i].cs]))

\* ------------------------------------------------------------------- C23
\* The description of the MvdInfo.
Description(w) == w.self.header.description

\* new is old rewritten for keyword K and value v: a line whose stripped text
\* starts with "K [" is "K [v]" at the same index, every other line is as it
\* was, and with no such line "K [v]" is one more, last line.
Rewritten(old, new, K, v) ==
  LET matched == {n \in 1..Len(old) : startswith(strip(old[n]), K \o <<" ", "[">>)}
      line == K \o <<" ", "[">> \o v \o <<"]">>
  IN  IF matched = {}
        THEN Len(new) = Len(old) + 1 /\ new = old \o <<line>>
        ELSE /\ Len(new) = Len(old)
             /\ \A n \in 1..Len(old) : new[n] = (IF n \in matched THEN line ELSE old[n])

\* C23: _update_keyword(K, v) leaves the description rewritten for K and v.
C23_Rewrite ==
  [][\A keyword \in {ViewDefinition, Comment, Remark} :
       UpdateKeyword(keyword, <<"X">>) =>
         Rewritten(Description(mvd), Description(mvd'), keyword, <<"X">>)]_vars

\* What holds instead: the description is rewritten if the header's
\* description can be assigned; on the header of a file the call raises
\* AttributeError and the description is as it was.
C23_RewriteIfAssignable ==
  [][\A keyword \in {ViewDefinition, Comment, Remark} :
       UpdateKeyword(keyword, <<"X">>) =>
         IF mvd.self.header.kind = "namespace"
           THEN /\ mvd'.call.status = "ok"
                /\ Rewritten(Description(mvd), Description(mvd'), keyword, <<"X">>)
           ELSE /\ mvd'.call.status = "AttributeError"
                /\ Description(mvd') = Description(mvd)]_vars

\* ------------------------------------------------------------------- C24
\* C24: what an MvdInfo has parsed is nothing or the parse of the description
\* it has now, so that a read answers from the description as it is.
C24_CacheCoherent ==
  mvd # NoneType =>
    \/ mvd.self.parsed = None
    \/ mvd.self.parsed = ensure_parsed([mvd.self EXCEPT !.parsed = None])

\* A read has followed a call that rewrote the line of the view definitions,
\* and has parsed the new line.
C24_Witness ==
  /\ mvd # NoneType
  /\ mvd.mutations > 0 /\ mvd.call.status = "ok"
  /\ mvd.call.commits = <<[keyword |-> ViewDefinition, new_value |-> <<"X">>]>>
  /\ mvd.call.c = None
  /\ mvd.self.parsed # None
  /\ mvd.self.parsed.view_definitions = PyList(<<strX>>)

\* ------------------------------------------------------------------- C25
\* The items joined with "," for the view definitions and with ", " for the
\* comments.
Serialised(keyword, items) ==
  LET sep == IF keyword = ViewDefinition THEN <<",">> ELSE <<",", " ">>
      RECURSIVE joined(_)
      joined(n) == IF n > Len(items) THEN <<>>
                   ELSE IF n = Len(items) THEN items[n].v
                   ELSE items[n].v \o sep \o joined(n + 1)
  IN  joined(1)

\* C25: after a method of a container that changed its list, the callback
\* has been called once, and with the serialisation of the items the list
\* has after the change.
C25_CommitOnce ==
  (mvd # NoneType /\ mvd.call.c # None /\ mvd.call.status # "IndexError"
                  /\ mvd.call.status # "ValueError") =>
    mvd.call.commits =
      <<[keyword |-> mvd.call.c.keyword,
         new_value |-> Serialised(mvd.call.c.keyword, mvd.call.c.v)]>>

\* X has been appended to the comments "c" and " d", and the callback has
\* been called with the three of them.
C25_Witness ==
  /\ mvd # NoneType
  /\ mvd.call.c = AutoCommitList(<<PyStr(<<"c">>), PyStr(<<" ", "d">>), strX>>, Comment)
  /\ mvd.call.commits =
       <<[keyword |-> Comment,
          new_value |-> <<"c", ",", " ", " ", "d", ",", " ", "X">>]>>

\* ------------------------------------------------------------------- C26
ReferenceView == <<"R", "e", "f", "e", "r", "e", "n", "c", "e", "V", "i", "e", "w", "_", "V", "1", ".", "2">>
Alignment == <<"A", "l", "i", "g", "n", "m", "e", "n", "t">>
SomeKey == <<"S", "o", "m", "e", "K", "e", "y">>
SomeValue == <<"S", "o", "m", "e", "V", "a", "l", "u", "e">>

\* The description has been parsed.
Extracted == mvd # NoneType /\ mvd.self.parsed # None

\* mvd.Remark and mvd.remark are dictionaries that map SomeKey to SomeValue.
RemarkOfTest ==
  \A name \in {Remark, lower(Remark)} :
    /\ getattr(mvd.self, name).status = "ok"
    /\ getattr(mvd.self, name).value.cls = "dict"
    /\ getattr(mvd.self, name).value.keys = <<SomeKey>>
    /\ getattr(mvd.self, name).value.map[SomeKey] = PyStr(SomeValue)

\* C26: the view definitions parsed are names without whitespace around
\* them, and the description of the test gives the names ReferenceView_V1.2
\* and Alignment and a Remark that maps SomeKey to SomeValue.
C26_Extraction ==
  Extracted =>
    /\ mvd.self.parsed.view_definitions # None =>
         \A n \in 1..Len(mvd.self.parsed.view_definitions.v) :
           mvd.self.parsed.view_definitions.v[n].v = strip(mvd.self.parsed.view_definitions.v[n].v)
    /\ Description(mvd) = <<LineS6>> =>
         /\ mvd.self.parsed.view_definitions = PyList(<<PyStr(ReferenceView), PyStr(Alignment)>>)
         /\ RemarkOfTest

\* What holds instead: a name after a comma keeps the space written before
\* it; the Remark is as the claim says.
C26_SpaceKept ==
  (Extracted /\ Description(mvd) = <<LineS6>>) =>
    /\ mvd.self.parsed.view_definitions =
         PyList(<<PyStr(ReferenceView), PyStr(<<" ">> \o Alignment)>>)
    /\ RemarkOfTest

\* ------------------------------------------------------------------- C27
\* A call on f.mvd, or on a container of it, has reached _update_keyword.
WrittenThroughFile == f # NoneType /\ mvd # NoneType /\ mvd.call.commits # <<>>

\* C27: a mutation through f.mvd ends without an error, and the description
\* read of f.header afterwards, which is the one a new f.mvd reads, has the
\* line written.
C27_WriteBack ==
  WrittenThroughFile =>
    /\ mvd.call.status = "ok"
    /\ \E n \in 1..Len(file_header(f.header_).description) :
         file_header(f.header_).description[n] =
           KeywordLine(mvd.call.commits[1].keyword, mvd.call.commits[1].new_value)

\* What holds instead: the mutation raises AttributeError, and the
\* description of f.header is the one the MvdInfo was made of.
C27_Raises ==
  WrittenThroughFile =>
    /\ mvd.call.status = "AttributeError"
    /\ file_header(f.header_).description = Description(mvd)
    /\ mvd.self.header = file_header(f.header_)

\* ------------------------------------------------------------------- C28
\* The skeleton parse of the file has ended, and the full-tree parse of the
\* same file after it.
BothModesEnded ==
  /\ prev # NoCall /\ prev.mode = "skeleton"
  /\ mode = "tree" /\ outcome # "running"

\* The DuplicateNameErrors among errs, as (name, lineno) pairs in order.
Duplicates(errs) ==
  LET dups == OfClass(errs, "DuplicateNameError")
  IN  [k \in 1..Len(dups) |-> <<dups[k].name, Lineno(dups[k])>>]

\* C28: of a file with a header of the correct arity, both parses return or
\* both raise a validation error, and they report the same duplicates.
C28_ModesAgree ==
  BothModesEnded =>
    /\ (outcome = "returned") = (prev.outcome = "returned")
    /\ (outcome = "raised") = (prev.outcome = "raised")
    /\ Duplicates(errors) = Duplicates(prev.errors)

\* What holds instead: the two agree on a file of simple records; with a
\* complex record the full-tree parse ends in an AttributeError, and the
\* skeleton parse passes over the record, its id taking no part in the
\* search for duplicates (the records of these files have one id).
C28_AgreeOnSimple ==
  BothModesEnded =>
    IF \E i \in 1..Len(filecontent.data) : filecontent.data[i].kind = "complex"
      THEN /\ outcome = "crashed"
           /\ (prev.outcome = "raised") =
                (Cardinality({i \in 1..Len(filecontent.data) :
                                filecontent.data[i].kind = "simple"}) > 1)
      ELSE C28_ModesAgree

\* ------------------------------------------------------------------- C29
\* The parse of the description of w.
ParseOf(w) == ensure_parsed([w.self EXCEPT !.parsed = None])

\* The name under which the value of keyword K is parsed, and the parsed
\* value of a name.
NameOf(K) ==
  CASE K = ViewDefinition -> view_definitions_name
    [] K = Comment -> comments_name
    [] K = ExchangeRequirement -> exchange_requirements_name
    [] K = Option -> options_name
    [] OTHER -> lower(K)

ValueOf(parsed, name) ==
  CASE name = view_definitions_name -> parsed.view_definitions
    [] name = comments_name -> parsed.comments
    [] name = exchange_requirements_name -> parsed.exchange_requirements
    [] name = options_name -> parsed.options
    [] OTHER -> IF Has(parsed.dynamic, name) THEN parsed.dynamic.map[name].value ELSE None

\* A call has written the line of a keyword: _update_keyword, a setter or a
\* method of a container, ended without an error.
LineWritten ==
  /\ mvd # NoneType
  /\ mvd'.mutations = mvd.mutations + 1
  /\ mvd'.call.status = "ok" /\ mvd'.call.commits # <<>>

\* The keywords of the description other than the written one have the
\* parsed values they had.
OthersKept ==
  \A name \in ParseOf(mvd).keywords \ {NameOf(mvd'.call.commits[1].keyword)} :
    ValueOf(ParseOf(mvd'), name) = ValueOf(ParseOf(mvd), name)

\* C29: writing the line of one keyword leaves the parsed value of every
\* other keyword of the description as it was.
C29_OthersKept == [][LineWritten => OthersKept]_vars

\* Every line of the description is one block of a keyword.
OneBlockPerLine(description) ==
  \A n \in 1..Len(description) :
    /\ parser_parse(description[n]).ok
    /\ Len(parser_parse(description[n]).entries) = 1

\* What holds instead: the other keywords keep their values if each line
\* held one block and the description still parses after the call; the
\* whole line of the keyword is replaced, and a description that does not
\* parse has no parsed value at all.
C29_OthersKeptOnOwnLines ==
  [][(/\ LineWritten
      /\ OneBlockPerLine(Description(mvd))
      /\ parser_parse(join_with(<<" ">>, Description(mvd'))).ok) => OthersKept]_vars

\* ------------------------------------------------------------------- C30
\* Two containers of one keyword were taken before any mutating call: the one
\* the caller holds, unchanged so far, and another, through which the one
\* mutating call so far was made (a container made for a call before every
\* mutation has the items of one taken at the start).
OneMutatedOneStale ==
  /\ mvd # NoneType /\ mvd.mutations = 1
  /\ mvd.call.status = "ok" /\ mvd.call.c # None
  /\ mvd.held # None /\ mvd.call.c # mvd.held
  /\ mvd.call.c.keyword = mvd.held.keyword

\* The description has the line of keyword K with the items.
HasLine(description, K, items) ==
  \E n \in 1..Len(description) : description[n] = KeywordLine(K, Serialised(K, items))

\* C30: after a method of the first container and then a method of the
\* second, the line of the keyword has the items both methods leave, one
\* after the other.
C30_BothMutations ==
  [][\A op \in ListCalls :
       (/\ OneMutatedOneStale
        /\ HeldCall(op) /\ mvd'.call.status = "ok"
        /\ list_method(mvd.call.c.v, op).status = "ok") =>
         HasLine(Description(mvd'), mvd.held.keyword, list_method(mvd.call.c.v, op).v)]_vars

\* What holds instead: the line has the items of the second container, which
\* are those it was made with and those its own method left.
C30_LastContainerWins ==
  [][\A op \in ListCalls :
       (OneMutatedOneStale /\ HeldCall(op) /\ mvd'.call.status = "ok") =>
         /\ mvd'.held = AutoCommitList_method(mvd.held, op).c
         /\ HasLine(Description(mvd'), mvd.held.keyword, list_method(mvd.held.v, op).v)]_vars

====
